---- MODULE Spec2Model ----
(***************************************************************************)
(* Model of the DCS mouse controller: the modular engine (main.py,         *)
(* detector.py, executor.py, bindings.py) as a poll / dispatch / update /  *)
(* sleep loop, and the axis-as-button polling of the single-file           *)
(* DCSMouseController.py.                                                  *)
(*                                                                         *)
(* Axis values and thresholds are fixed-point: the integer v stands for    *)
(* v / AxisScale.  Wall-clock time is in milliseconds.  Rates, intervals   *)
(* and the "last" timestamps of the ramps are exact rationals <<n, d>>.    *)
(***************************************************************************)
EXTENDS Integers, Sequences, FiniteSets, TLC

VARIABLES
    conf,               \* the loaded configuration (immutable)
    pc,                 \* position of run_main's loop
    now,                \* time.time(), in ms
    btn,                \* btn[dev][id]: js.get_button sample of the last poll
    axis,               \* axis[dev][id]: js.get_axis sample of the last poll
    mod_on,             \* poll's local mod_on of the last poll
    last_mod_on,        \* InputDetector._last_mod_on
    state_cache,        \* InputDetector.state_cache
    events,             \* the list returned by the last poll
    evIdx,              \* index of the next event run_main hands to handle_event
    wheel_state,        \* InputExecutor.wheel_state
    increment_state,    \* InputExecutor.increment_state
    key_toggle_state,   \* InputExecutor.key_toggle_state
    key_toggle_repeat,  \* InputExecutor.key_toggle_repeat
    axis_accum,         \* InputExecutor.axis_accum
    calls,              \* keymapper / mousecontroller calls made by the last step
    upd,                \* locals of the last _update_wheels/_update_increments, per key
    lastEv,             \* history: last event emitted per binding ("none","press","release")
    computed,           \* history: state poll computed per binding in the last poll
    prevComputed,       \* history: the same for the poll before
    sent,               \* history: last hold-mode call per (binding, output)
    presses,            \* history: press events emitted per binding, up to MaxPresses
    abs_pos,            \* InputExecutor._abs_pos: None or <<x, y>>
    axis_hist,          \* history per axis key: the values fed and the steps emitted
    iter_log,           \* history: the calls run_main has made in this iteration
    warnings,           \* log.warning calls per binding: at load and while polling
    t_cfg,              \* DCSMouseController: cfg, the keys the toggle handling reads
    active,             \* DCSMouseController.main: active
    saved_cursor,       \* DCSMouseController.main: saved_cursor, None or <<x, y>>
    target,             \* DCSMouseController.main: <<target_x, target_y>>
    base,               \* DCSMouseController.main: <<base_x, base_y>>
    wiggle_flip,        \* DCSMouseController.main: wiggle_flip
    last_toggle,        \* DCSMouseController.main: last_toggle, in ms
    last_apply,         \* DCSMouseController.main: last_apply, in ms
    active_winrect,     \* DCSMouseController.main: active_winrect, None or a rect
    os_cursor,          \* the cursor position of the operating system
    accepted,           \* history: toggle presses the last step accepted
    stepped,            \* history: the movement step the last step applied
    m_cfg,              \* DCSMouseController: the axis-threshold binding and hysteresis
    m_mod,              \* DCSMouseController: modifier_is_down() of the last iteration
    m_val,              \* DCSMouseController: js.get_axis sample of the last iteration
    axbtn_prev,         \* DCSMouseController: axbtn_prev[(name, i)]
    m_res,              \* DCSMouseController: (pressed, edge_down, edge_up) of the last call
    m_btn,              \* DCSMouseController: m_btn[k], button k physically down
    btn_hold_state,     \* DCSMouseController.main: btn_hold_state[(name, i)]
    hold_asserted,      \* DCSMouseController.main: per action, the hold state of the iteration
    mouse_state,        \* DCSMouseController.mouse_reconcile.state
    mouse_sent,         \* send_mouse_button calls of the last iteration
    mouse_last,         \* history: per side the last event sent, "none" before the first
    hold_flags,         \* DCSMouseController.main: hold_flags[key] of the last iteration
    hold_started_at,    \* DCSMouseController.main: hold_started_at[key], None or ms
    accel_mult,         \* DCSMouseController.main: accel_mult_for(key) of the last iteration
    wiggle_active,      \* InputExecutor.wiggle_active
    last_wiggle,        \* InputExecutor.last_wiggle, in ms of time.time()
    wiggle_mode,        \* InputExecutor.wiggle_mode
    wiggle_px,          \* InputExecutor.wiggle_px
    wiggle_ms,          \* InputExecutor.wiggle_ms
    wiggle_moves,       \* history: the wiggle movements since the last wiggle toggle
    tap_hist,           \* history per toggle key: when it was switched on and last tapped
    ini                 \* the [input] section of the INI file read at start, or None

detVars  == <<btn, axis, mod_on, last_mod_on, state_cache, events, evIdx>>
wiggleVars == <<wiggle_active, last_wiggle, wiggle_mode, wiggle_px, wiggle_ms,
                wiggle_moves>>
execVars == <<wheel_state, increment_state, key_toggle_state, key_toggle_repeat,
              axis_accum, abs_pos, calls, upd, wiggleVars, tap_hist>>
histVars == <<lastEv, computed, prevComputed, sent, presses, axis_hist, iter_log>>
loopVars == <<ini, conf, pc, now>>
mouseVars == <<mouse_state, mouse_sent, mouse_last>>
accelVars == <<hold_flags, hold_started_at, accel_mult>>
monoVars == <<m_cfg, m_mod, m_val, axbtn_prev, m_res, m_btn, btn_hold_state, hold_asserted,
              mouseVars, accelVars>>
logVars  == <<warnings>>
togVars  == <<t_cfg, active, saved_cursor, target, base, wiggle_flip, last_toggle,
              last_apply, active_winrect, os_cursor, accepted, stepped>>
vars     == <<loopVars, detVars, execVars, histVars, monoVars, logVars, togVars>>

----------------------------------------------------------------------------
(* Bounds of the model *)

\* The loop stops sleeping once the clock has reached MaxTime ms.
MaxTime == 2400

\* Configurations without ramped actions are explored up to this time.
MaxTimeKeys == 200

\* The "inc" configuration (a short ramp, 100 ms frames) is explored up to this time.
MaxTimeInc == 1200

\* Configurations with toggle-mode keys are explored up to this time.
MaxTimeToggle == 600
\* Warnings counted per binding while polling (the count saturates)
MaxWarnings == 2
\* Horizon of the runs of DCSMouseController's toggle handling, in ms
MaxTimeTog == 600

\* Configurations with overlapping ramp bindings are explored up to this time.
MaxTimeOverlap == 400

\* The hold acceleration is followed up to this time.
MaxTimeAccel == 1200

\* The clock of the runs that never end is counted up to this time.
MaxTimeLive == 200

\* Configurations with several toggle keys are explored up to this time.
MaxTimeRepeat == 130

\* A configuration read from a file is explored up to this time.
MaxTimeLoad == 200

\* Configurations with a wiggle binding are explored up to this time.
MaxTimeWiggle == 1000

\* Configurations with a continuous axis are explored up to this time.
MaxTimeAxis == 600

\* The press events of a binding are counted up to this number.
MaxPresses == 2

(* Program constants *)

\* Fixed-point scale of axis values: v stands for v / AxisScale.
AxisScale == 4

\* keymapper.tap(combo, hold_ms = 30) sleeps hold_ms between down and up.
TapHoldMs == 30

\* _update_key_toggles repeats every 50 ms.
ToggleRepeatMs == 50

DefaultWheelInit  == 5
DefaultWheelMax   == 30
DefaultWheelAccel == 1000

----------------------------------------------------------------------------
(* Python values *)

None    == <<>>
Some(x) == <<x>>

Abs(x)    == IF x < 0 THEN -x ELSE x
Max(a, b) == IF a >= b THEN a ELSE b
Min(a, b) == IF a <= b THEN a ELSE b

RECURSIVE Gcd(_, _)
Gcd(a, b) == IF b = 0 THEN a ELSE Gcd(b, a % b)

\* Exact rationals <<n, d>> with d > 0, in lowest terms.
Rat(n, d) ==
    LET s == IF d < 0 THEN -1 ELSE 1
        g == Gcd(Abs(n), Abs(d))
    IN  <<(s * n) \div g, (s * d) \div g>>
RInt(n)    == <<n, 1>>
RAdd(x, y) == Rat(x[1] * y[2] + y[1] * x[2], x[2] * y[2])
RSub(x, y) == Rat(x[1] * y[2] - y[1] * x[2], x[2] * y[2])
RMul(x, y) == Rat(x[1] * y[1], x[2] * y[2])
RDiv(x, y) == Rat(x[1] * y[2], x[2] * y[1])
RLeq(x, y) == x[1] * y[2] <= y[1] * x[2]
RLt(x, y)  == x[1] * y[2] < y[1] * x[2]
RMax(x, y) == IF RLeq(y, x) THEN x ELSE y
RFloor(x)  == x[1] \div x[2]

\* A Python dict as a function with a growing domain.
DictGet(d, k, dflt) == IF k \in DOMAIN d THEN d[k] ELSE dflt
DictSet(d, k, v)    == [x \in (DOMAIN d) \cup {k} |-> IF x = k THEN v ELSE d[x]]
DictDel(d, k)       == [x \in (DOMAIN d) \ {k} |-> d[x]]
EmptyDict           == [x \in {} |-> TRUE]

----------------------------------------------------------------------------
(* bindings.py: the data model *)

InputBinding(guid, index, type, id, amode, thr, layer) ==
    [device_guid |-> guid, device_index |-> index, input_type |-> type,
     input_id |-> id, axis_mode |-> amode, threshold |-> thr,
     modifier_layer |-> layer]

OutputAction(type, value, mode, winit, wmax, waccel, extra) ==
    [type |-> type, value |-> value, mode |-> mode, wheel_init |-> winit,
     wheel_max |-> wmax, wheel_accel |-> waccel, extra |-> extra]

BindingMap(input, outputs) == [input |-> input, outputs |-> outputs]

NoExtra == [hold_ms |-> None, axis |-> None, amount |-> None, mode |-> None]

\* parse_input of "dev:0:button:<n>[:M]" and "dev:0:axis:<a>[:<dir>:<thr>][:M]"
Button(n, layer)            == InputBinding("", Some(0), "button", n - 1, "", None, layer)
AxisButton(a, dir, t, layer) == InputBinding("", Some(0), "axis", a, dir, Some(t), layer)
AxisAnalog(a, layer)        == InputBinding("", Some(0), "axis", a, "", None, layer)

\* parse_input of "dev:<idx>:button:<n>" and of "dev:<guid>:button:<n>"
ButtonOn(idx, n)    == InputBinding("", Some(idx), "button", n - 1, "", None, FALSE)
ButtonGuid(guid, n) == InputBinding(guid, None, "button", n - 1, "", None, FALSE)

\* parse_output of "<key>:<mode>", "MB<n>:<mode>", "Wheel*:<i>:<m>:<r>:hold",
\* "MouseInc:x:relative:hold:<i>:<m>:<r>" and "mouse_x"
Key(k, mode)         == OutputAction("key", k, mode, 0, 0, 0, None)
MouseButton(b, mode) == OutputAction("mouse_button", b, mode, 0, 0, 0,
                                     Some([NoExtra EXCEPT !.hold_ms = Some(TapHoldMs)]))
\* parse_output of "WiggleMouse:<mode>:<px>:<ms>"
WiggleMouse(mode, px, ms) ==
    OutputAction("mouse_wiggle", "WiggleMouse", "toggle", 0, 0, 0,
                 Some([wiggle_mode |-> mode, wiggle_px |-> px, wiggle_ms |-> ms]))
Wheel(w, mode, i, m, r) ==
    IF mode = "hold" THEN OutputAction("mouse_wheel", w, mode, i, m, r, None)
                     ELSE OutputAction("mouse_wheel", w, mode, 0, 0, 0, None)
MouseInc(ax, i, m, r) ==
    OutputAction("mouse_increment", "MouseInc", "hold", i, m, r,
                 Some([NoExtra EXCEPT !.axis = Some(ax), !.amount = Some(1),
                                      !.mode = Some("relative")]))
MouseAxis(ax) == OutputAction("mouse_axis", ax, "single", 0, 0, 0, None)

----------------------------------------------------------------------------
(* Configurations: what InputConfig, KeyMapConfig and AxisMapConfig load.   *)
(* One joystick is attached (index 0); nb and na are its get_numbuttons()  *)
(* and get_numaxes().  bindings is keymaps + axismaps, in list order.      *)

Device(nb, na) == [idx |-> 0, guid |-> "g0", nb |-> nb, na |-> na]

\* Joystick idx of pygame's enumeration, with its get_guid()
DeviceAt(idx, guid, nb, na) == [idx |-> idx, guid |-> guid, nb |-> nb, na |-> na]

\* parse_output: "int(parts[2]) if len(parts) > 2 else 5", "... else 1000"
DefaultWigglePx == 5
DefaultWiggleMs == 1000

\* epoch: time.time() * 1000.0 when the loop starts
BaseConfig ==
    [devices |-> <<Device(2, 0)>>, modifier |-> None, bindings |-> <<>>,
     axis_deadzone |-> <<1, 20>>, axis_speed |-> 10, axis_mode |-> "relative",
     axis_poll_hz |-> 10, debug_inputs |-> FALSE, maxTime |-> MaxTimeKeys,
     wiggle_initially_on |-> FALSE, wiggle_px |-> DefaultWigglePx,
     wiggle_ms |-> DefaultWiggleMs, epoch |-> 0,
     desktop |-> [x0 |-> -2, y0 |-> 0, w |-> 5, h |-> 2]]

Conf(c) ==
    CASE c = "layers" ->
           [BaseConfig EXCEPT
              !.modifier = Some(Button(2, FALSE)),
              !.bindings = <<
                 BindingMap(Button(1, FALSE), <<Key("A", "hold")>>),
                 BindingMap(Button(1, TRUE),  <<Key("B", "hold"), Key("C", "single")>>) >>]
      [] c = "axes" ->
           [BaseConfig EXCEPT
              !.devices  = <<Device(1, 1)>>,
              !.modifier = Some(Button(1, FALSE)),
              !.bindings = <<
                 BindingMap(AxisButton(0, "pos", 2, FALSE), <<Key("D", "hold")>>),
                 BindingMap(AxisButton(0, "neg", 2, TRUE),  <<Key("E", "hold")>>),
                 BindingMap(AxisButton(0, "abs", 3, FALSE), <<Key("F", "single")>>),
                 BindingMap(AxisAnalog(0, TRUE),            <<MouseAxis("x")>>) >>]
      [] c = "mouse" ->
           [BaseConfig EXCEPT
              !.bindings = <<
                 BindingMap(Button(1, FALSE), <<MouseButton("MB1", "hold")>>),
                 BindingMap(Button(2, FALSE), <<Key("G", "single"),
                                                MouseButton("MB2", "single")>>) >>]
      [] c = "wheel" ->
           [BaseConfig EXCEPT
              !.devices  = <<Device(1, 0)>>,
              !.maxTime  = MaxTime,
              !.axis_poll_hz = 5,
              !.bindings = <<
                 BindingMap(Button(1, FALSE),
                            <<Wheel("WheelUp", "hold", DefaultWheelInit,
                                    DefaultWheelMax, DefaultWheelAccel)>>) >>]
      [] c = "inc" ->
           [BaseConfig EXCEPT
              !.devices  = <<Device(1, 0)>>,
              !.maxTime  = MaxTimeInc,
              !.bindings = <<
                 BindingMap(Button(1, FALSE), <<MouseInc("x", 2, 4, 200)>>) >>]
      [] c = "shared" ->
           [BaseConfig EXCEPT
              !.modifier = Some(Button(2, FALSE)),
              !.maxTime  = MaxTime,
              !.axis_poll_hz = 5,
              !.bindings = <<
                 BindingMap(Button(1, FALSE), <<Wheel("WheelUp", "hold", 0, 0, 0)>>),
                 BindingMap(Button(1, TRUE),  <<Wheel("WheelUp", "hold", 4, 2, 200)>>) >>]

      [] c = "toggle" ->
           [BaseConfig EXCEPT
              !.maxTime  = MaxTimeToggle,
              !.bindings = <<
                 BindingMap(Button(1, FALSE), <<Key("T", "toggle")>>),
                 BindingMap(Button(2, FALSE), <<Key("U", "hold")>>) >>]
      [] c = "devices" ->
           [BaseConfig EXCEPT
              !.devices  = <<DeviceAt(0, "g0", 1, 0), DeviceAt(1, "g1", 1, 0)>>,
              !.maxTime  = MaxTimeToggle,
              !.bindings = <<
                 BindingMap(ButtonOn(0, 1), <<Key("T", "toggle")>>),
                 BindingMap(ButtonOn(1, 1), <<Key("T", "toggle")>>) >>]
      [] c = "unresolved" ->
           [BaseConfig EXCEPT
              !.devices  = <<DeviceAt(0, "g0", 1, 0)>>,
              !.debug_inputs = TRUE,
              !.bindings = <<
                 BindingMap(ButtonOn(1, 1),      <<Key("V", "hold")>>),
                 BindingMap(ButtonGuid("G0", 1), <<Key("W", "hold")>>),
                 BindingMap(ButtonGuid("g9", 1), <<Key("X", "hold")>>),
                 BindingMap(ButtonGuid("g0", 1), <<Key("Y", "hold")>>),
                 BindingMap(ButtonOn(0, 2),      <<Key("Z", "hold")>>) >>]
      [] c = "baseaxes" ->
           [BaseConfig EXCEPT
              !.devices  = <<Device(1, 1)>>,
              !.modifier = Some(Button(1, FALSE)),
              !.bindings = <<
                 BindingMap(AxisButton(0, "pos", 2, FALSE), <<Key("H", "hold")>>),
                 BindingMap(AxisAnalog(0, FALSE),           <<MouseAxis("x")>>) >>]
      [] c = "edges" ->
           [BaseConfig EXCEPT
              !.devices  = <<Device(1, 1)>>,
              !.modifier = Some(Button(1, FALSE)),
              !.bindings = <<
                 BindingMap(AxisButton(0, "pos", 1, FALSE), <<Key("I", "single")>>),
                 BindingMap(AxisButton(0, "pos", 3, FALSE), <<Key("J", "single")>>),
                 BindingMap(AxisButton(0, "abs", 3, FALSE), <<Key("K", "single")>>),
                 BindingMap(AxisButton(0, "pos", 1, TRUE),  <<Key("L", "single")>>) >>]

      [] c = "analog" ->
           [BaseConfig EXCEPT
              !.devices  = <<Device(0, 1)>>,
              !.maxTime  = MaxTimeAxis,
              !.axis_deadzone = <<3, 10>>,
              !.axis_speed = 15,
              !.bindings = << BindingMap(AxisAnalog(0, FALSE), <<MouseAxis("x")>>) >>]
      [] c = "absolute" ->
           [BaseConfig EXCEPT
              !.devices  = <<Device(0, 1)>>,
              !.maxTime  = MaxTimeAxis,
              !.axis_deadzone = <<3, 10>>,
              !.axis_speed = 15,
              !.axis_mode = "absolute",
              !.bindings = << BindingMap(AxisAnalog(0, FALSE),
                                         <<MouseAxis("x"), MouseAxis("y")>>) >>]
      [] c = "thresholds" ->
           [BaseConfig EXCEPT
              !.devices  = <<Device(0, 1)>>,
              !.maxTime  = MaxTimeOverlap,
              !.axis_poll_hz = 5,
              !.bindings = <<
                 BindingMap(AxisButton(0, "pos", 1, FALSE),
                            <<Wheel("WheelUp", "hold", 5, 30, 1000)>>),
                 BindingMap(AxisButton(0, "pos", 3, FALSE),
                            <<Wheel("WheelUp", "hold", 5, 30, 1000)>>) >>]
      [] c = "sameid" ->
           [BaseConfig EXCEPT
              !.devices  = <<Device(1, 1)>>,
              !.maxTime  = MaxTimeOverlap,
              !.axis_poll_hz = 5,
              !.bindings = <<
                 BindingMap(Button(1, FALSE), <<MouseInc("x", 2, 4, 200)>>),
                 BindingMap(AxisButton(0, "pos", 2, FALSE),
                            <<MouseInc("x", 2, 4, 200)>>) >>]
      [] c = "single" ->
           [BaseConfig EXCEPT
              !.devices  = <<Device(1, 0)>>,
              !.maxTime  = MaxTimeOverlap,
              !.axis_poll_hz = 5,
              !.bindings = <<
                 BindingMap(Button(1, FALSE), <<Wheel("WheelDown", "single", 0, 0, 0)>>) >>]
      [] c = "twolists" ->
           \* [key_mappings] dev:0:button:1 => V and [axis_mappings]
           \* dev:0:button:1 => MouseInc: keymaps + axismaps holds both.
           [BaseConfig EXCEPT
              !.devices  = <<Device(1, 0)>>,
              !.maxTime  = MaxTimeOverlap,
              !.axis_poll_hz = 5,
              !.bindings = <<
                 BindingMap(Button(1, FALSE), <<Key("V", "hold")>>),
                 BindingMap(Button(1, FALSE), <<MouseInc("x", 2, 4, 200)>>) >>]
      [] c = "holds" ->
           [BaseConfig EXCEPT
              !.maxTime  = MaxTimeLive,
              !.modifier = Some(Button(2, FALSE)),
              !.bindings = <<
                 BindingMap(Button(1, FALSE), <<Key("Q", "hold")>>),
                 BindingMap(Button(1, TRUE),  <<Key("R", "hold")>>) >>]
      [] c = "toggles" ->
           [BaseConfig EXCEPT
              !.maxTime  = MaxTimeRepeat,
              !.axis_poll_hz = 100,
              !.bindings = <<
                 BindingMap(Button(1, FALSE), <<Key("V", "toggle")>>),
                 BindingMap(Button(2, FALSE), <<Key("W", "toggle")>>) >>]
      [] c = "wiggle" ->
           [BaseConfig EXCEPT
              !.devices  = <<Device(1, 0)>>,
              !.maxTime  = MaxTimeWiggle,
              !.epoch    = 1000,
              !.bindings = << BindingMap(Button(1, FALSE),
                                         <<WiggleMouse("relative", 2, 200)>>) >>]
      [] c = "wiggleabs" ->
           [BaseConfig EXCEPT
              !.devices  = <<Device(1, 0)>>,
              !.maxTime  = MaxTimeWiggle,
              !.epoch    = 1000,
              !.bindings = << BindingMap(Button(1, FALSE),
                                         <<WiggleMouse("absolute", 1, 100)>>) >>]

WiggleConfigs == {"wiggle", "wiggleabs"}

\* The modifier bindings parse_input can give on device 0: a button, an axis with
\* a direction and a threshold (0, 0.5 or 0.75), and an axis without a mode.
ModifierBindings ==
    {Button(1, FALSE), AxisAnalog(0, FALSE)}
      \cup {AxisButton(0, dir, thr, FALSE) : dir \in {"pos", "neg", "abs"}, thr \in {0, 2, 3}}

\* A configuration whose modifier m is also bound as an ordinary input, once in
\* the base layer and once in the modified layer.
ModConf(m) ==
    [BaseConfig EXCEPT
       !.devices  = <<Device(1, 1)>>,
       !.modifier = Some(m),
       !.bindings = <<
          BindingMap(m, <<Key("N", "single")>>),
          BindingMap([m EXCEPT !.modifier_layer = TRUE], <<Key("O", "single")>>) >>]

KeyConfigs  == {"layers", "axes", "mouse", "toggle", "devices", "unresolved", "baseaxes", "edges"}
AxisConfigs == {"analog", "absolute"}
RampConfigs == {"wheel", "inc", "shared"}

Bindings(c) == c.bindings
NB(c)       == 1 .. Len(Bindings(c))
Outputs(c, i) == Bindings(c)[i].outputs

\* The values js.get_axis can return: -1 .. 1 in steps of 1 / AxisScale.
AxisVals == (-AxisScale) .. AxisScale

\* The samples one pygame.event.pump() can expose for the attached devices.
ButtonSamples(c) ==
    [ {d.idx : d \in {c.devices[k] : k \in 1 .. Len(c.devices)}} ->
        UNION { [0 .. (d.nb - 1) -> BOOLEAN] :
                  d \in {c.devices[k] : k \in 1 .. Len(c.devices)} } ]
AxisSamples(c) ==
    [ {d.idx : d \in {c.devices[k] : k \in 1 .. Len(c.devices)}} ->
        UNION { [0 .. (d.na - 1) -> AxisVals] :
                  d \in {c.devices[k] : k \in 1 .. Len(c.devices)} } ]

----------------------------------------------------------------------------
(* detector.py *)

\* InputDetector._key_for_binding
KeyForBinding(ib) == <<ib.device_guid, ib.device_index, ib.input_type, ib.input_id>>

\* InputDetector._build_index: slot['mod'] is set for the physical input of ib
IndexHasMod(c, ib) ==
    \E i \in NB(c) : /\ Bindings(c)[i].input.modifier_layer
                     /\ KeyForBinding(Bindings(c)[i].input) = KeyForBinding(ib)

\* InputDetector._resolve_device: the first matching device, or None
RECURSIVE ResolveFrom(_, _, _)
ResolveFrom(devs, k, ib) ==
    IF k > Len(devs) THEN None
    ELSE IF ib.device_index # None /\ ib.device_index[1] = devs[k].idx THEN Some(devs[k])
    ELSE IF ib.device_guid # "" /\ ib.device_guid = devs[k].guid THEN Some(devs[k])
    ELSE ResolveFrom(devs, k + 1, ib)
ResolveDevice(c, ib) == ResolveFrom(c.devices, 1, ib)

\* str.lower() on the GUID strings of the configurations
Lower(g) ==
    CASE g = "G0" -> "g0"
      [] g = "G1" -> "g1"
      [] OTHER -> g

\* InputDetector.__init__, "Verify bindings": match for one binding
LoadMatch(c, ib) ==
    \E k \in 1 .. Len(c.devices) :
       \/ ib.device_guid # "" /\ Lower(ib.device_guid) = Lower(c.devices[k].guid)
       \/ ib.device_index # None /\ ib.device_index[1] = c.devices[k].idx

\* InputDetector.__init__: the "[BINDINGS] No attached device" warnings logged
LoadWarnings(c) ==
    [i \in 1 .. Len(c.bindings) |->
        [load |-> IF LoadMatch(c, c.bindings[i].input) THEN 0 ELSE 1, poll |-> 0]]

\* "ib.threshold or 0.5": None and 0.0 both give 0.5
ThresholdOrHalf(ib) ==
    IF ib.threshold = None \/ ib.threshold[1] = 0 THEN AxisScale \div 2
    ELSE ib.threshold[1]

\* InputDetector._modifier_active
ModifierActive(c, b, a) ==
    LET m == c.modifier IN
    IF m = None THEN FALSE
    ELSE LET ib == m[1]
             js == ResolveDevice(c, ib)
         IN  IF js = None THEN FALSE
             ELSE IF ib.input_type = "button"
                  THEN IF ib.input_id < 0 \/ ib.input_id >= js[1].nb THEN FALSE
                       ELSE b[js[1].idx][ib.input_id]
             ELSE IF ib.input_type = "axis"
                  THEN IF ib.input_id < 0 \/ ib.input_id >= js[1].na THEN FALSE
                       ELSE LET val  == a[js[1].idx][ib.input_id]
                                thr  == IF ib.threshold # None THEN ib.threshold[1]
                                        ELSE AxisScale \div 2
                                mode == IF ib.axis_mode # "" THEN ib.axis_mode ELSE "abs"
                            IN  IF mode = "pos" THEN val > thr
                                ELSE IF mode = "neg" THEN val < -thr
                                ELSE Abs(val) > thr
             ELSE FALSE

\* Mutant of LayerGated: the base layer is not inhibited while the modifier is on.
LayerGatedLayerOnly(c, ib, modOn) == ib.modifier_layer /\ ~modOn

\* Mutant of LayerGated: while the modifier is on only base buttons are inhibited,
\* base axes only when a modified binding exists for the same input.
LayerGatedBaseButtons(c, ib, modOn) ==
    \/ ib.modifier_layer /\ ~modOn
    \/ (~ib.modifier_layer) /\ modOn /\ ib.input_type = "button"
    \/ /\ (~ib.modifier_layer) /\ modOn /\ ib.input_type # "button"
       /\ IndexHasMod(c, ib)

\* poll, layer gating: TRUE when the binding is skipped in this tick
LayerGated(c, ib, modOn) ==
    \/ ib.modifier_layer /\ ~modOn
    \/ (~ib.modifier_layer) /\ modOn
    \/ /\ (~ib.modifier_layer) /\ modOn /\ ib.input_type # "button"
       /\ IndexHasMod(c, ib)

\* poll, axis-as-button: the state computed from the raw value
AxisButtonState(ib, val) ==
    IF ib.axis_mode = "pos" THEN val > ThresholdOrHalf(ib)
    ELSE IF ib.axis_mode = "neg" THEN val < -ThresholdOrHalf(ib)
    ELSE IF ib.axis_mode = "abs" THEN Abs(val) > ThresholdOrHalf(ib)
    ELSE FALSE

\* poll, per binding: "skip" (continue before a state is computed), "analog"
\* (continuous axis), or the digital state "on" / "off"
Computed(c, i, modOn, b, a) ==
    LET ib == Bindings(c)[i].input
        js == ResolveDevice(c, ib)
    IN  IF LayerGated(c, ib, modOn) THEN "skip"
        ELSE IF js = None THEN "skip"
        ELSE IF ib.input_type = "button"
             THEN IF ib.input_id < 0 \/ ib.input_id >= js[1].nb THEN "skip"
                  ELSE IF b[js[1].idx][ib.input_id] THEN "on" ELSE "off"
        ELSE IF ib.input_type = "axis" /\ ib.axis_mode # ""
             THEN IF ib.input_id < 0 \/ ib.input_id >= js[1].na THEN "skip"
                  ELSE IF AxisButtonState(ib, a[js[1].idx][ib.input_id]) THEN "on" ELSE "off"
        ELSE IF ib.input_type = "axis" /\ ib.axis_mode = ""
             THEN IF ib.input_id < 0 \/ ib.input_id >= js[1].na THEN "skip"
                  ELSE "analog"
        ELSE "skip"

\* poll, per binding: TRUE when this tick logs "[DETECTOR] Invalid ... index"
PollWarns(c, i, modOn) ==
    LET ib == Bindings(c)[i].input
        js == ResolveDevice(c, ib)
    IN  /\ ~LayerGated(c, ib, modOn)
        /\ js # None
        /\ c.debug_inputs
        /\ \/ ib.input_type = "button" /\ (ib.input_id < 0 \/ ib.input_id >= js[1].nb)
           \/ ib.input_type = "axis" /\ (ib.input_id < 0 \/ ib.input_id >= js[1].na)

InputEvent(i, pressed, value) == [b |-> i, pressed |-> pressed, value |-> value]

\* Mutant of EdgeEmit: the new state is not written back to state_cache.
EdgeEmitNoStore(ib, i, state, cache, evs) ==
    IF state # DictGet(cache, ib, FALSE)
    THEN <<cache, Append(evs, InputEvent(i, state, IF state THEN AxisScale ELSE 0))>>
    ELSE <<cache, evs>>

\* Mutant of EdgeEmit: the edge cache is keyed by the physical input only.
EdgeEmitPhysicalKey(ib, i, state, cache, evs) ==
    IF state # DictGet(cache, KeyForBinding(ib), FALSE)
    THEN <<DictSet(cache, KeyForBinding(ib), state),
           Append(evs, InputEvent(i, state, IF state THEN AxisScale ELSE 0))>>
    ELSE <<cache, evs>>

\* poll, digital edge emit for binding i with computed state: <<cache, events>>
EdgeEmit(ib, i, state, cache, evs) ==
    LET prev == DictGet(cache, ib, FALSE) IN
    IF state # prev
    THEN <<DictSet(cache, ib, state),
           Append(evs, InputEvent(i, state, IF state THEN AxisScale ELSE 0))>>
    ELSE <<cache, evs>>

\* Mutant of AnalogEmit: the value goes through the edge cache and an event is
\* emitted only when it changed.
AnalogEmitOnChange(ib, i, val, cache, evs) ==
    IF DictGet(cache, ib, None) # Some(val)
    THEN <<DictSet(cache, ib, Some(val)), Append(evs, InputEvent(i, TRUE, val))>>
    ELSE <<cache, evs>>

\* poll, continuous axis: "events.append(InputEvent(bm, True, value=val)); continue"
AnalogEmit(ib, i, val, cache, evs) ==
    <<cache, Append(evs, InputEvent(i, TRUE, val))>>

\* poll, the loop over self.bindings from binding i on: <<cache, events>>
RECURSIVE PollFrom(_, _, _, _, _, _, _)
PollFrom(c, i, modOn, b, a, cache, evs) ==
    IF i > Len(Bindings(c)) THEN <<cache, evs>>
    ELSE LET ib == Bindings(c)[i].input
             st == Computed(c, i, modOn, b, a)
             r  == IF st = "skip" THEN <<cache, evs>>
                   ELSE IF st = "analog"
                        THEN AnalogEmit(ib, i,
                                        a[ResolveDevice(c, ib)[1].idx][ib.input_id],
                                        cache, evs)
                   ELSE EdgeEmit(ib, i, st = "on", cache, evs)
         IN  PollFrom(c, i + 1, modOn, b, a, r[1], r[2])

----------------------------------------------------------------------------
(* mousecontroller.py: what the executor can call *)

\* The methods class MouseController defines.
MouseControllerMethods ==
    {"get_monitor_handle", "set_position_monitor_frac", "set_position_monitor_px",
     "set_position_pixels", "set_position_frac", "move_relative", "move_axis",
     "click", "wheel", "find_window", "list_windows", "get_window_rect",
     "set_position_window_frac"}

\* def click(self, button: str) takes no hold_ms keyword.
ClickTakesHoldMs == FALSE

----------------------------------------------------------------------------
(* executor.py.  The handlers work on a record x of the executor's fields, *)
(* the clock, the calls made so far in this step and whether an exception  *)
(* is propagating (raised).                                                *)

Call(op, arg, b, o) == [op |-> op, arg |-> arg, b |-> b, o |-> o]

Emit(x, op, arg, b, o) == [x EXCEPT !.calls = Append(x.calls, Call(op, arg, b, o))]

\* A call of self.mousecontroller.<method>: AttributeError when the class has no
\* such method, TypeError when click is given hold_ms.
MouseCall(x, method, arg, kwHoldMs, b, o) ==
    IF method \notin MouseControllerMethods THEN [x EXCEPT !.raised = TRUE]
    ELSE IF method = "click" /\ kwHoldMs /\ ~ClickTakesHoldMs THEN [x EXCEPT !.raised = TRUE]
    ELSE Emit(x, method, arg, b, o)

\* keymapper.tap: key_down, sleep(hold_ms), key_up
Tap(x, combo, b, o) ==
    [Emit(x, "tap", combo, b, o) EXCEPT !.now = x.now + TapHoldMs]

\* History of a toggle key switched on at t: no tap yet.  t is the time of the
\* last key_down (of the switching on or of a tap), at the clock value the
\* executor holds for it.
SwitchedOn(t) == [t |-> t, at |-> t, gap |-> None, agap |-> None, call |-> None, n |-> 0]

\* History of a toggle key tapped at the time real by the update() call that
\* read the clock as t: gap is the time since the previous key_down, agap the
\* difference of the clock values held, n the taps of this call.
TapNoted(h, real, t) ==
    [t |-> real, at |-> t, gap |-> Some(real - h.t), agap |-> Some(t - h.at),
     call |-> Some(t), n |-> IF h.call = Some(t) THEN h.n + 1 ELSE 1]

\* Mutant of ExecKey: switching a toggle off keeps its repeat timer.
ExecKeyKeepsTimer(x, ib, out, ev, b, o) ==
    IF out.mode = "toggle" /\ ev.pressed
          /\ DictGet(x.key_toggle_state,
                     <<out.type, out.value, ib.device_guid, ib.input_id>>, FALSE)
    THEN [Emit(x, "key_up", out.value, b, o) EXCEPT
            !.key_toggle_state =
                DictSet(x.key_toggle_state,
                        <<out.type, out.value, ib.device_guid, ib.input_id>>, FALSE)]
    ELSE IF out.mode = "toggle" /\ ev.pressed
    THEN [Emit(x, "key_down", out.value, b, o) EXCEPT
            !.key_toggle_state =
                DictSet(x.key_toggle_state,
                        <<out.type, out.value, ib.device_guid, ib.input_id>>, TRUE),
            !.key_toggle_repeat =
                DictSet(x.key_toggle_repeat,
                        <<out.type, out.value, ib.device_guid, ib.input_id>>, x.now),
            !.tap_hist =
                DictSet(x.tap_hist,
                        <<out.type, out.value, ib.device_guid, ib.input_id>>,
                        SwitchedOn(x.now))]
    ELSE x

\* InputExecutor._exec_key
ExecKey(x, ib, out, ev, b, o) ==
    IF out.mode = "single"
    THEN IF ev.pressed THEN Tap(x, out.value, b, o) ELSE x
    ELSE IF out.mode = "hold"
    THEN IF ev.pressed
         THEN [Emit(x, "key_down", out.value, b, o) EXCEPT !.sent[<<b, o>>] = "down"]
         ELSE [Emit(x, "key_up", out.value, b, o) EXCEPT !.sent[<<b, o>>] = "up"]
    ELSE IF out.mode = "toggle"
    THEN IF ev.pressed
         THEN LET key_id == <<out.type, out.value, ib.device_guid, ib.input_id>> IN
              IF DictGet(x.key_toggle_state, key_id, FALSE)
              THEN [Emit(x, "key_up", out.value, b, o) EXCEPT
                      !.key_toggle_state  = DictSet(x.key_toggle_state, key_id, FALSE),
                      !.key_toggle_repeat = DictDel(x.key_toggle_repeat, key_id)]
              ELSE [Emit(x, "key_down", out.value, b, o) EXCEPT
                      !.key_toggle_state  = DictSet(x.key_toggle_state, key_id, TRUE),
                      !.key_toggle_repeat = DictSet(x.key_toggle_repeat, key_id, x.now),
                      !.tap_hist = DictSet(x.tap_hist, key_id, SwitchedOn(x.now))]
         ELSE x
    ELSE x

\* InputExecutor._exec_button
ExecButton(x, ib, out, ev, b, o) ==
    IF out.mode = "single"
    THEN IF ev.pressed THEN MouseCall(x, "click", out.value, TRUE, b, o) ELSE x
    ELSE IF out.mode = "hold"
    THEN IF ev.pressed
         THEN LET y == MouseCall(x, "button_down", out.value, FALSE, b, o) IN
              IF y.raised THEN y ELSE [y EXCEPT !.sent[<<b, o>>] = "down"]
         ELSE LET y == MouseCall(x, "button_up", out.value, FALSE, b, o) IN
              IF y.raised THEN y ELSE [y EXCEPT !.sent[<<b, o>>] = "up"]
    ELSE x

\* InputExecutor._wheel_key and _inc_key
WheelKey(ib, out) ==
    <<ib.device_index, ib.device_guid, ib.input_type, ib.input_id, out.value>>
IncKey(ib, out) ==
    <<ib.device_index, ib.device_guid, ib.input_id, out.value>>

\* A ramp entry {"start": now, "last": now, "out": out}; b, o name the binding
\* and output whose press created it.
RampEntry(x, out, b, o) ==
    [start |-> x.now, last |-> RInt(x.now), out |-> out, b |-> b, o |-> o]

\* InputExecutor._start_wheel_hold
StartWheelHold(x, ib, out, b, o) ==
    MouseCall([x EXCEPT !.wheel_state =
                   DictSet(x.wheel_state, WheelKey(ib, out), RampEntry(x, out, b, o))],
              "wheel", out.value, FALSE, b, o)

\* Mutant of StopWheelHold: the entry is kept on release.
StopWheelHoldKeeps(x, ib, out) == x

\* InputExecutor._stop_wheel_hold
StopWheelHold(x, ib, out) ==
    IF WheelKey(ib, out) \in DOMAIN x.wheel_state
    THEN [x EXCEPT !.wheel_state = DictDel(x.wheel_state, WheelKey(ib, out))]
    ELSE x

\* InputExecutor._start_increment
StartIncrement(x, ib, out, b, o) ==
    [x EXCEPT !.increment_state =
        DictSet(x.increment_state, IncKey(ib, out), RampEntry(x, out, b, o))]

\* InputExecutor._stop_increment
StopIncrement(x, ib, out) ==
    IF IncKey(ib, out) \in DOMAIN x.increment_state
    THEN [x EXCEPT !.increment_state = DictDel(x.increment_state, IncKey(ib, out))]
    ELSE x

\* int(), which truncates toward zero
RTrunc(r) == IF r[1] >= 0 THEN r[1] \div r[2] ELSE -((-r[1]) \div r[2])

AxisKey(ib, out) == <<ib.device_index, ib.device_guid, ib.input_id, out.value>>

\* The pixels of the virtual desktop (GetSystemMetrics 76 .. 79)
Desktop(c) ==
    {<<px, py>> : px \in c.desktop.x0 .. (c.desktop.x0 + c.desktop.w - 1),
                  py \in c.desktop.y0 .. (c.desktop.y0 + c.desktop.h - 1)}

\* Mutant of AbsClamp: the position is not clamped.
AbsClampNone(c, p) == p

\* max(x0, min(x0 + w - 1, x)), max(y0, min(y0 + h - 1, y))
AbsClamp(c, p) ==
    <<Max(c.desktop.x0, Min(c.desktop.x0 + c.desktop.w - 1, p[1])),
      Max(c.desktop.y0, Min(c.desktop.y0 + c.desktop.h - 1, p[2]))>>

\* mousecontroller.set_position_pixels(self._abs_pos[0], self._abs_pos[1])
AbsApply(y, b, o) == MouseCall(y, "set_position_pixels", y.abs_pos[1], FALSE, b, o)

\* _exec_axis, absolute mode with _abs_pos = Some(p): add the step, clamp, apply
AbsMove(c, y, p, out, step, b, o) ==
    AbsApply([y EXCEPT !.abs_pos =
                 Some(AbsClamp(c, IF out.value = "x" THEN <<p[1] + step, p[2]>>
                                  ELSE <<p[1], p[2] + step>>))],
             b, o)

\* _exec_axis: the move by step whole pixels; in absolute mode _abs_pos starts
\* at GetCursorPos
AxisMove(c, y, out, step, b, o) ==
    IF step = 0 THEN y
    ELSE IF c.axis_mode = "relative"
    THEN MouseCall(y, "move_relative",
                   IF out.value = "x" THEN <<step, 0>> ELSE <<0, step>>, FALSE, b, o)
    ELSE AbsMove(c, y, IF y.abs_pos = None THEN y.cursor ELSE y.abs_pos[1],
                 out, step, b, o)

\* The history of an axis key that has not been fed yet.
NoAxisHist == [n |-> 0, v |-> 0, total |-> 0, const |-> TRUE]

\* History: n calls past the deadzone, all with the value v, have emitted the
\* steps total; const is FALSE once two different values were fed.
AxisHistAdd(h, value, step) ==
    IF h.const /\ (h.n = 0 \/ h.v = value)
    THEN [n |-> h.n + 1, v |-> value, total |-> h.total + step, const |-> TRUE]
    ELSE [n |-> 0, v |-> 0, total |-> 0, const |-> FALSE]

\* _exec_axis: accum is the stored remainder plus delta; its whole part is
\* moved and taken off the remainder
AxisStore(c, x, key, out, b, o, value, accum) ==
    AxisMove(c, [x EXCEPT !.axis_accum =
                    DictSet(x.axis_accum, key, RSub(accum, RInt(RTrunc(accum)))),
                          !.axis_hist =
                    DictSet(x.axis_hist, key,
                            AxisHistAdd(DictGet(x.axis_hist, key, NoAxisHist),
                                        value, RTrunc(accum)))],
             out, RTrunc(accum), b, o)

\* Mutant of AxisAccumulate: the stored remainder is not carried over.
AxisAccumulateFresh(c, x, key, out, b, o, value, delta) ==
    AxisStore(c, x, key, out, b, o, value, delta)

\* accum = self.axis_accum.get(key, 0.0) + delta
AxisAccumulate(c, x, key, out, b, o, value, delta) ==
    AxisStore(c, x, key, out, b, o, value,
              RAdd(DictGet(x.axis_accum, key, RInt(0)), delta))

\* delta = value * axis_speed * dt, with dt = 1 / max(1, axis_poll_hz)
AxisDelta(c, value) ==
    RDiv(RMul(Rat(value, AxisScale), RInt(c.axis_speed)), RInt(Max(1, c.axis_poll_hz)))

\* Mutant of ExecAxis: there is no deadzone.
ExecAxisNoDeadzone(c, x, ib, out, ev, b, o) ==
    AxisAccumulate(c, x, AxisKey(ib, out), out, b, o, ev.value, AxisDelta(c, ev.value))

\* InputExecutor._exec_axis.  value is ev.value / AxisScale.
ExecAxis(c, x, ib, out, ev, b, o) ==
    IF RLt(Rat(Abs(ev.value), AxisScale), c.axis_deadzone) THEN x
    ELSE AxisAccumulate(c, x, AxisKey(ib, out), out, b, o, ev.value,
                        AxisDelta(c, ev.value))

\* InputExecutor.handle_event, the body of the loop for one output
\* The history of wiggle movements: the last two and their sum.
NoWiggleMoves == [prev |-> None, last |-> None, total |-> 0]

WiggleMoved(h, t, dx) ==
    [prev |-> h.last, last |-> Some([t |-> t, dx |-> dx]), total |-> h.total + dx]

\* InputExecutor._toggle_wiggle
ToggleWiggle(x, out) ==
    LET y == [x EXCEPT !.wiggle_active = ~x.wiggle_active,
                       !.wiggle_moves = NoWiggleMoves]
    IN  IF out.extra # None
        THEN [y EXCEPT !.wiggle_mode = out.extra[1].wiggle_mode,
                       !.wiggle_px = out.extra[1].wiggle_px,
                       !.wiggle_ms = out.extra[1].wiggle_ms]
        ELSE y

HandleOutput(c, x, ib, out, ev, b, o) ==
    IF out.type = "key" THEN ExecKey(x, ib, out, ev, b, o)
    ELSE IF out.type = "mouse_button" THEN ExecButton(x, ib, out, ev, b, o)
    ELSE IF out.type = "mouse_wheel"
         THEN IF ev.pressed THEN StartWheelHold(x, ib, out, b, o)
              ELSE StopWheelHold(x, ib, out)
    ELSE IF out.type = "mouse_axis" THEN ExecAxis(c, x, ib, out, ev, b, o)
    ELSE IF out.type = "mouse_increment"
         THEN IF ev.pressed THEN StartIncrement(x, ib, out, b, o)
              ELSE StopIncrement(x, ib, out)
    ELSE IF out.type = "mouse_wiggle" /\ ev.pressed THEN ToggleWiggle(x, out)
    ELSE x

\* InputExecutor.handle_event: the loop over event.binding.outputs from output o
\* on; an exception leaves the loop.
RECURSIVE HandleFrom(_, _, _, _)
HandleFrom(c, x, ev, o) ==
    IF x.raised \/ o > Len(Outputs(c, ev.b)) THEN x
    ELSE HandleFrom(c,
                    HandleOutput(c, x, Bindings(c)[ev.b].input, Outputs(c, ev.b)[o],
                                 ev, ev.b, o),
                    ev, o + 1)

\* The ramp parameters _update_wheels and _update_increments read from out.
RampInit(out) == Max(1, IF out.wheel_init # 0 THEN out.wheel_init ELSE DefaultWheelInit)
RampMax(out)  == Max(RampInit(out),
                     IF out.wheel_max # 0 THEN out.wheel_max ELSE DefaultWheelMax)
RampMs(out)   == Max(1, IF out.wheel_accel # 0 THEN out.wheel_accel ELSE DefaultWheelAccel)

\* Mutant of RampRate: the ramp is not clamped at ramp_ms.
RampRateUnclamped(init, vmax, ramp_ms, elapsed_ms) ==
    RAdd(RInt(init), RMul(RInt(vmax - init), Rat(elapsed_ms, ramp_ms)))

\* The tick rate (per second) at elapsed_ms.
RampRate(init, vmax, ramp_ms, elapsed_ms) ==
    IF elapsed_ms >= ramp_ms THEN RInt(vmax)
    ELSE RAdd(RInt(init), RMul(RInt(vmax - init), Rat(elapsed_ms, ramp_ms)))

\* interval = 1.0 / max(1e-6, rate), in ms
RampInterval(rate) == RDiv(RInt(1000), RMax(Rat(1, 1000000), rate))

\* Mutant of TickLoop: after the ticks, last is set to now.
RECURSIVE TickLoopResync(_, _, _, _)
TickLoopResync(last, t, interval, n) ==
    IF RLeq(interval, RSub(RInt(t), last))
    THEN TickLoopResync(RAdd(last, interval), t, interval, n + 1)
    ELSE <<IF n > 0 THEN RInt(t) ELSE last, n>>

\* "while now - last >= interval: <tick>; last += interval": <<last, ticks>>
RECURSIVE TickLoop(_, _, _, _)
TickLoop(last, t, interval, n) ==
    IF RLeq(interval, RSub(RInt(t), last))
    THEN TickLoop(RAdd(last, interval), t, interval, n + 1)
    ELSE <<last, n>>

\* The locals of one pass of the loop body for a ramp entry.
RampStep(st, t) ==
    LET init     == RampInit(st.out)
        vmax     == RampMax(st.out)
        ramp_ms  == RampMs(st.out)
        elapsed  == t - st.start
        rate     == RampRate(init, vmax, ramp_ms, elapsed)
        interval == RampInterval(rate)
        r        == TickLoop(st.last, t, interval, 0)
    IN  [init |-> init, vmax |-> vmax, ramp_ms |-> ramp_ms, elapsed_ms |-> elapsed,
         rate |-> rate, interval |-> interval, last0 |-> st.last, last |-> r[1],
         ticks |-> r[2], now |-> t, start |-> st.start]

RECURSIVE EmitTimes(_, _, _, _, _, _)
EmitTimes(x, n, op, arg, b, o) ==
    IF n = 0 \/ x.raised THEN x
    ELSE EmitTimes(MouseCall(x, op, arg, FALSE, b, o), n - 1, op, arg, b, o)

\* The keys of a dict in a fixed order (dict order does not matter to the
\* result: the entries are independent).
RECURSIVE SetToSeq(_)
SetToSeq(S) == IF S = {} THEN <<>>
               ELSE LET e == CHOOSE e \in S : TRUE IN <<e>> \o SetToSeq(S \ {e})

\* state["last"] = last, after the ticks of the pass with the locals s
StoreWheelLast(y, key, s) ==
    [y EXCEPT !.wheel_state[key].last = s.last, !.upd = DictSet(y.upd, key, s)]

\* _update_wheels, one pass of the loop body: entry st of key, locals s
WheelPass(x, key, st, s) ==
    StoreWheelLast(EmitTimes(x, s.ticks, "wheel", st.out.value, st.b, st.o), key, s)

\* InputExecutor._update_wheels
RECURSIVE UpdateWheelsFrom(_, _, _, _)
UpdateWheelsFrom(x, keys, k, t) ==
    IF x.raised \/ k > Len(keys) THEN x
    ELSE UpdateWheelsFrom(
             WheelPass(x, keys[k], x.wheel_state[keys[k]],
                       RampStep(x.wheel_state[keys[k]], t)),
             keys, k + 1, t)
UpdateWheels(x) == UpdateWheelsFrom(x, SetToSeq(DOMAIN x.wheel_state), 1, x.now)

StoreIncrementLast(y, key, s) ==
    [y EXCEPT !.increment_state[key].last = s.last, !.upd = DictSet(y.upd, key, s)]

\* _update_increments, one pass of the loop body: entry st of key, its
\* out.extra ex, locals s
IncrementPass(x, key, st, ex, s) ==
    StoreIncrementLast(
        EmitTimes(x, s.ticks,
                  IF ex.mode[1] = "relative" THEN "move_relative"
                  ELSE "set_position_pixels",
                  IF ex.axis[1] = "x" THEN <<ex.amount[1], 0>> ELSE <<0, ex.amount[1]>>,
                  st.b, st.o),
        key, s)

\* InputExecutor._update_increments (relative mode: one move_relative per tick)
RECURSIVE UpdateIncrementsFrom(_, _, _, _)
UpdateIncrementsFrom(x, keys, k, t) ==
    IF x.raised \/ k > Len(keys) THEN x
    ELSE UpdateIncrementsFrom(
             IncrementPass(x, keys[k], x.increment_state[keys[k]],
                           x.increment_state[keys[k]].out.extra[1],
                           RampStep(x.increment_state[keys[k]], t)),
             keys, k + 1, t)
UpdateIncrements(x) ==
    UpdateIncrementsFrom(x, SetToSeq(DOMAIN x.increment_state), 1, x.now)

\* Mutant of ToggleDue: a key that is on is tapped by every call.
ToggleDueAlways(last_time, t) == TRUE

\* _update_key_toggles: "if now - last_time >= 0.05"
ToggleDue(last_time, t) == t - last_time >= ToggleRepeatMs

\* InputExecutor._update_key_toggles: now is read once, before the taps
RECURSIVE UpdateKeyTogglesFrom(_, _, _, _)
UpdateKeyTogglesFrom(x, keys, k, t) ==
    IF x.raised \/ k > Len(keys) THEN x
    ELSE UpdateKeyTogglesFrom(
             IF ToggleDue(x.key_toggle_repeat[keys[k]], t)
             THEN [Tap(x, keys[k][2], 0, 0) EXCEPT
                     !.key_toggle_repeat[keys[k]] = t,
                     !.tap_hist[keys[k]] = TapNoted(x.tap_hist[keys[k]], x.now, t)]
             ELSE x,
             keys, k + 1, t)
UpdateKeyToggles(x) ==
    UpdateKeyTogglesFrom(x, SetToSeq(DOMAIN x.key_toggle_repeat), 1, x.now)

\* "dx = self.wiggle_px if int(now/self.wiggle_ms) % 2 == 0 else -self.wiggle_px"
WiggleDx(t, px, ms) == IF (t \div ms) % 2 = 0 THEN px ELSE -px

\* _update_wiggle, the body of "if now - self.last_wiggle >= self.wiggle_ms"
WiggleStep(x, t, dx) ==
    LET y == IF x.wiggle_mode = "relative"
             THEN MouseCall(x, "move_relative", <<dx, 0>>, FALSE, 0, 0)
             ELSE MouseCall(x, "set_position_pixels",
                            <<x.cursor[1] + dx, x.cursor[2]>>, FALSE, 0, 0)
    IN  IF y.raised THEN y
        ELSE [y EXCEPT !.last_wiggle = t,
                       !.wiggle_moves = WiggleMoved(x.wiggle_moves, t, dx)]

\* InputExecutor._update_wiggle; t is time.time() * 1000.0
UpdateWiggleAt(x, t) ==
    IF ~x.wiggle_active THEN x
    ELSE IF t - x.last_wiggle >= x.wiggle_ms
         THEN WiggleStep(x, t, WiggleDx(t, x.wiggle_px, x.wiggle_ms))
         ELSE x
UpdateWiggle(x) == UpdateWiggleAt(x, x.epoch + x.now)

\* InputExecutor.update
ExecUpdate(x) == UpdateKeyToggles(UpdateIncrements(UpdateWiggle(UpdateWheels(x))))

----------------------------------------------------------------------------
(* DCSMouseController.py: axis-as-button polling *)

\* Mutant of axis_to_button: the release test uses the press bound.
axis_to_button_no_hys(v, direction, threshold, hysteresis, prev_pressed) ==
    LET thr == Max(0, Min(AxisScale, threshold))
        pressed == IF direction = "pos" THEN v >= thr
                   ELSE IF direction = "neg" THEN v <= -thr
                   ELSE Abs(v) >= thr
    IN  <<pressed, pressed /\ ~prev_pressed, (~pressed) /\ prev_pressed, v>>

\* axis_to_button: <<pressed, edge_down, edge_up, value>>
axis_to_button(v, direction, threshold, hysteresis, prev_pressed) ==
    LET thr == Max(0, Min(AxisScale, threshold))
        hys == Max(0, Min(thr, hysteresis))
        lim == IF ~prev_pressed THEN thr ELSE thr - hys
        pressed == IF direction = "pos" THEN v >= lim
                   ELSE IF direction = "neg" THEN v <= -lim
                   ELSE Abs(v) >= lim
    IN  <<pressed, pressed /\ ~prev_pressed, (~pressed) /\ prev_pressed, v>>

\* binding_active, with a modifier button configured
binding_active(b, modDown) == IF modDown THEN b.req_mod ELSE ~b.req_mod

\* poll_axbtn_any(name) for the one axis-threshold binding (name, 0):
\* <<axbtn_prev, result of axis_to_button or None>>
poll_axbtn_any(name, b, hys, modDown, v, prev) ==
    IF ~binding_active(b, modDown) THEN <<DictSet(prev, <<name, 0>>, FALSE), None>>
    ELSE LET prev_p == DictGet(prev, <<name, 0>>, FALSE)
             r      == axis_to_button(v, b.dir, b.thr, hys, prev_p)
         IN  <<DictSet(prev, <<name, 0>>, r[1]), Some(r)>>

----------------------------------------------------------------------------
(* run_main: the loop "poll, handle_event per event, update, sleep" *)

\* frame_dt = 1.0 / max(1, input_cfg.axis_poll_hz), in ms
FrameMs(c) == 1000 \div Max(1, c.axis_poll_hz)

ExecRecord ==
    [wheel_state |-> wheel_state, increment_state |-> increment_state,
     key_toggle_state |-> key_toggle_state, key_toggle_repeat |-> key_toggle_repeat,
     axis_accum |-> axis_accum, calls |-> <<>>, upd |-> EmptyDict, now |-> now,
     sent |-> sent, raised |-> FALSE, abs_pos |-> abs_pos, axis_hist |-> axis_hist,
     cursor |-> <<0, 0>>, epoch |-> conf.epoch, wiggle_active |-> wiggle_active,
     last_wiggle |-> last_wiggle, wiggle_mode |-> wiggle_mode, wiggle_px |-> wiggle_px,
     wiggle_ms |-> wiggle_ms, wiggle_moves |-> wiggle_moves, tap_hist |-> tap_hist]

\* The executor's fields after a call that returned x; an exception ends the loop.
SetExec(x, next) ==
    /\ pc' = IF x.raised THEN "crashed" ELSE next
    /\ wheel_state' = x.wheel_state
    /\ increment_state' = x.increment_state
    /\ key_toggle_state' = x.key_toggle_state
    /\ key_toggle_repeat' = x.key_toggle_repeat
    /\ axis_accum' = x.axis_accum
    /\ abs_pos' = x.abs_pos
    /\ axis_hist' = x.axis_hist
    /\ calls' = x.calls
    /\ upd' = x.upd
    /\ now' = x.now
    /\ sent' = x.sent
    /\ wiggle_active' = x.wiggle_active
    /\ last_wiggle' = x.last_wiggle
    /\ wiggle_mode' = x.wiggle_mode
    /\ wiggle_px' = x.wiggle_px
    /\ wiggle_ms' = x.wiggle_ms
    /\ wiggle_moves' = x.wiggle_moves
    /\ tap_hist' = x.tap_hist

\* A binding polled as a continuous axis (no edge state).
IsAnalog(ib) == ib.input_type = "axis" /\ ib.axis_mode = ""

IsDigital(c, i) == ~IsAnalog(Bindings(c)[i].input)

\* The last digital event of binding i among evs, or the one recorded so far.
LastEvOf(c, i, evs, old) ==
    LET idx == {k \in 1 .. Len(evs) : evs[k].b = i /\ ~IsAnalog(Bindings(c)[i].input)}
    IN  IF idx = {} THEN old
        ELSE IF evs[CHOOSE k \in idx : \A j \in idx : j <= k].pressed THEN "press"
        ELSE "release"

\* What a poll leaves behind for the samples b, a: m is the modifier sample
\* and r = <<state_cache, events>> the result of the loop over the bindings.
PollDone(b, a, m, r) ==
    /\ btn' = b
    /\ axis' = a
    /\ mod_on' = m
    /\ last_mod_on' = Some(m)
    /\ state_cache' = r[1]
    /\ events' = r[2]
    /\ computed' = [i \in NB(conf) |-> Computed(conf, i, m, b, a)]
    /\ warnings' = [i \in NB(conf) |->
                      IF PollWarns(conf, i, m)
                      THEN [warnings[i] EXCEPT !.poll = Min(MaxWarnings, @ + 1)]
                      ELSE warnings[i]]
    /\ lastEv' = [i \in NB(conf) |-> LastEvOf(conf, i, r[2], lastEv[i])]
    /\ presses' = [i \in NB(conf) |->
                      IF \E k \in 1 .. Len(r[2]) :
                            r[2][k].b = i /\ r[2][k].pressed /\ IsDigital(conf, i)
                      THEN Min(MaxPresses, presses[i] + 1) ELSE presses[i]]

PollWith(b, a, m) == PollDone(b, a, m, PollFrom(conf, 1, m, b, a, state_cache, <<>>))

\* An entry of iter_log: a call of poll, handle_event (for events[k]) or update.
LoopCall(op, k) == [op |-> op, k |-> k]

\* Mutant of NextEvent: the events are handled last to first.
NextEventReversed(evs, idx) == Len(evs) + 1 - idx

\* "for ev in events": the position of the idx-th event handled
NextEvent(evs, idx) == idx

\* detector.poll()
Poll ==
    /\ pc = "poll"
    /\ iter_log' = <<LoopCall("poll", 0)>>
    /\ \E b \in ButtonSamples(conf), a \in AxisSamples(conf) :
         PollWith(b, a, ModifierActive(conf, b, a))
    /\ prevComputed' = computed
    /\ evIdx' = 1
    /\ calls' = <<>>
    /\ pc' = "dispatch"
    /\ UNCHANGED <<ini, conf, now, wheel_state, increment_state, key_toggle_state,
                   key_toggle_repeat, axis_accum, abs_pos, axis_hist, upd, sent,
                   wiggleVars, tap_hist, monoVars, togVars>>

\* executor.handle_event(ev) for the next event of the list
HandleEvent ==
    /\ pc = "dispatch"
    /\ evIdx <= Len(events)
    /\ \E p \in Desktop(conf) :   \* what GetCursorPos returns, if called
          SetExec(HandleFrom(conf, [ExecRecord EXCEPT !.cursor = p],
                             events[NextEvent(events, evIdx)], 1),
                  "dispatch")
    /\ iter_log' = Append(iter_log, LoopCall("handle_event", NextEvent(events, evIdx)))
    /\ evIdx' = evIdx + 1
    /\ UNCHANGED <<ini, conf, btn, axis, mod_on, last_mod_on, state_cache, events,
                   lastEv, computed, prevComputed, presses, monoVars, logVars, togVars>>

\* The positions _update_wiggle can read: it calls GetCursorPos only for an
\* absolute wiggle that is on.
WiggleCursors(c) ==
    IF wiggle_active /\ wiggle_mode # "relative" THEN Desktop(c) ELSE {<<0, 0>>}

\* executor.update()
Update ==
    /\ pc = "dispatch"
    /\ evIdx > Len(events)
    /\ \E p \in WiggleCursors(conf) :   \* what GetCursorPos returns, if called
          SetExec(ExecUpdate([ExecRecord EXCEPT !.cursor = p]), "sleep")
    /\ iter_log' = Append(iter_log, LoopCall("update", 0))
    /\ UNCHANGED <<ini, conf, detVars, lastEv, computed, prevComputed, presses, monoVars,
                   logVars, togVars>>

\* time.sleep(frame_dt); the sleep may overrun by a frame
Sleep ==
    /\ pc = "sleep"
    /\ \E d \in {FrameMs(conf), 2 * FrameMs(conf)} :
         /\ now + d <= conf.maxTime
         /\ now' = now + d
    /\ pc' = "poll"
    /\ calls' = <<>>
    /\ upd' = EmptyDict
    /\ iter_log' = <<>>
    /\ UNCHANGED <<ini, conf, detVars, wheel_state, increment_state, key_toggle_state,
                   key_toggle_repeat, axis_accum, abs_pos, lastEv, computed,
                   prevComputed, sent, presses, axis_hist, wiggleVars, tap_hist, monoVars,
                   logVars, togVars>>

\* time.sleep(frame_dt) once the clock is past the horizon: the loop goes on and
\* the clock, which no handler of a hold-mode key reads, is counted no further.
SleepOn ==
    /\ pc = "sleep"
    /\ now + FrameMs(conf) > conf.maxTime
    /\ pc' = "poll"
    /\ calls' = <<>>
    /\ upd' = EmptyDict
    /\ iter_log' = <<>>
    /\ UNCHANGED <<ini, conf, now, detVars, wheel_state, increment_state,
                   key_toggle_state, key_toggle_repeat, axis_accum, abs_pos, lastEv,
                   computed, prevComputed, sent, presses, axis_hist, wiggleVars,
                   tap_hist, monoVars, logVars, togVars>>

\* KeyboardInterrupt (or termination) while run_main's loop runs: nothing catches
\* it and no finally / atexit code exists, so the process ends as it stands.
Interrupt ==
    /\ pc \in {"poll", "dispatch", "sleep"}
    /\ pc' = "ended"
    /\ UNCHANGED <<ini, conf, now, detVars, execVars, histVars, monoVars, logVars, togVars>>

\* DCSMouseController.main: one pass of the axis-as-button polling
MonoPoll ==
    /\ pc = "mono"
    /\ \E v \in AxisVals, md \in BOOLEAN :
         LET r == poll_axbtn_any("wheel_up", m_cfg.b, m_cfg.hys, md, v, axbtn_prev)
         IN  /\ m_val' = v
             /\ m_mod' = md
             /\ axbtn_prev' = r[1]
             /\ m_res' = r[2]
    /\ UNCHANGED <<loopVars, detVars, execVars, histVars, m_cfg, logVars, togVars,
                   m_btn, btn_hold_state, hold_asserted, mouseVars, accelVars>>

----------------------------------------------------------------------------
(* DCSMouseController.py: button holds and the modifier layer.  The action *)
(* "mouse_left" has button bindings, "wheel_up" one axis-threshold binding.*)

\* parse_any_binding: "devIdx:0:button:<k + 1>[M]"
MonoButton(k, req_mod) ==
    [kind |-> "button", btn |-> k, dir |-> "", thr |-> 0, req_mod |-> req_mod]

\* parse_any_binding: "devIdx:0:axis:0:<dir>:<thr>[M]"
MonoAxisBtn(dir, thr, req_mod) ==
    [kind |-> "axisbtn", btn |-> 0, dir |-> dir, thr |-> thr, req_mod |-> req_mod]

\* load_config: modifier_button and the binding lists of the two actions
HoldConf(n) ==
    CASE n = "layered" ->
           [modifier_button |-> Some(2), hys |-> 1,
            mouse_left |-> <<MonoButton(0, FALSE), MonoButton(1, TRUE)>>,
            wheel_up   |-> MonoAxisBtn("pos", 2, TRUE)]
      [] n = "nomod" ->
           [modifier_button |-> None, hys |-> 1,
            mouse_left |-> <<MonoButton(0, TRUE), MonoButton(1, FALSE)>>,
            wheel_up   |-> MonoAxisBtn("abs", 2, TRUE)]
HoldConfigs == {"layered", "nomod"}
HoldButtons == 0 .. 1

\* modifier_is_down() when the modifier button is physically md
modifier_is_down(c, md) == IF c.modifier_button = None THEN FALSE ELSE md

\* main, button event processing: the JOYBUTTONDOWN / JOYBUTTONUP event of button
\* k (is_down) walks the bindings of "mouse_left" from binding i on
RECURSIVE HoldEventFrom(_, _, _, _, _, _)
HoldEventFrom(c, hs, k, is_down, modDown, i) ==
    IF i > Len(c.mouse_left) THEN hs
    ELSE IF c.mouse_left[i].btn = k /\ binding_active(c.mouse_left[i], modDown)
         THEN HoldEventFrom(c, [hs EXCEPT ![i] = is_down], k, is_down, modDown, i + 1)
    ELSE HoldEventFrom(c, hs, k, is_down, modDown, i + 1)

\* main, "for event in pygame.event.get()": one event per button whose physical
\* state changed from old to new, from button k on
RECURSIVE HoldEventsFrom(_, _, _, _, _, _)
HoldEventsFrom(c, hs, old, new, modDown, k) ==
    IF k \notin HoldButtons THEN hs
    ELSE HoldEventsFrom(c,
                        IF old[k] # new[k]
                        THEN HoldEventFrom(c, hs, k, new[k], modDown, 1)
                        ELSE hs,
                        old, new, modDown, k + 1)

\* any_btn("mouse_left")
any_btn(c, hs, modDown) == \E i \in 1 .. Len(c.mouse_left) : hs[i]

\* main loop, button event processing: the buttons and the modifier move
HoldEvents ==
    /\ pc = "h_events"
    /\ \E nb \in [HoldButtons -> BOOLEAN], md \in BOOLEAN :
          /\ m_btn' = nb
          /\ m_mod' = md
          /\ btn_hold_state' = HoldEventsFrom(m_cfg, btn_hold_state, m_btn, nb,
                                              modifier_is_down(m_cfg, md), 0)
    /\ pc' = "h_poll"
    /\ UNCHANGED <<ini, conf, now, detVars, execVars, histVars, logVars, togVars, m_cfg,
                   m_val, axbtn_prev, m_res, hold_asserted, mouseVars, accelVars>>

\* The hold states of one iteration from the polled axis result r
HoldPolled(r) ==
    /\ axbtn_prev' = r[1]
    /\ m_res' = r[2]
    /\ hold_asserted' =
          [mouse_left |-> any_btn(m_cfg, btn_hold_state, modifier_is_down(m_cfg, m_mod)),
           wheel_up   |-> r[2] # None /\ r[2][1][1]]

\* main loop, axis-as-button polling and the aggregate hold state per action
HoldPoll ==
    /\ pc = "h_poll"
    /\ \E v \in AxisVals :
          /\ m_val' = v
          /\ HoldPolled(poll_axbtn_any("wheel_up", m_cfg.wheel_up, m_cfg.hys,
                                       modifier_is_down(m_cfg, m_mod), v, axbtn_prev))
    /\ pc' = "h_events"
    /\ UNCHANGED <<ini, conf, now, detVars, execVars, histVars, logVars, togVars, m_cfg,
                   m_mod, m_btn, btn_hold_state, mouseVars, accelVars>>

----------------------------------------------------------------------------
(* DCSMouseController.py: the mouse buttons.  "mouse_left" has button      *)
(* bindings and one axis-threshold binding, "mouse_right" one axis-        *)
(* threshold binding.                                                      *)

\* load_config: the bindings of mouse_left and mouse_right
MouseConf(n) ==
    CASE n = "layered" ->
           [modifier_button |-> Some(2), hys |-> 1,
            mouse_left |-> <<MonoButton(0, FALSE), MonoButton(1, TRUE)>>,
            mouse_left_axis  |-> MonoAxisBtn("pos", 2, FALSE),
            mouse_right_axis |-> MonoAxisBtn("neg", 2, TRUE)]
      [] n = "nomod" ->
           [modifier_button |-> None, hys |-> 1,
            mouse_left |-> <<MonoButton(0, FALSE), MonoButton(1, FALSE)>>,
            mouse_left_axis  |-> MonoAxisBtn("abs", 3, FALSE),
            mouse_right_axis |-> MonoAxisBtn("neg", 2, FALSE)]
MouseConfigs == {"layered", "nomod"}
Sides == {"left", "right"}

\* send_mouse_button(side, down)
MouseEvent(side, down) == [side |-> side, down |-> down]

\* Mutant of mouse_reconcile: the event is sent whatever the state was.
mouse_reconcile_always(st, out, side, want_down) ==
    <<[st EXCEPT ![side] = want_down], Append(out, MouseEvent(side, want_down))>>

\* mouse_reconcile(side, want_down): <<state, events sent so far>>
mouse_reconcile(st, out, side, want_down) ==
    IF want_down # st[side]
    THEN <<[st EXCEPT ![side] = want_down], Append(out, MouseEvent(side, want_down))>>
    ELSE <<st, out>>

\* The last event per side once the events of out have gone out.
RECURSIVE LastSent(_, _, _)
LastSent(last, out, k) ==
    IF k > Len(out) THEN last
    ELSE LastSent([last EXCEPT ![out[k].side] = IF out[k].down THEN "down" ELSE "up"],
                  out, k + 1)

\* main loop from the axis-as-button polling to "MOUSE BUTTONS": rl and rr are
\* the results of poll_axbtn_any for mouse_left and mouse_right.
MouseReconciled(rl, rr, btn_left) ==
    LET l == mouse_reconcile(mouse_state, <<>>, "left",
                             btn_left \/ (rl[2] # None /\ rl[2][1][1]))
        r == mouse_reconcile(l[1], l[2], "right", rr[2] # None /\ rr[2][1][1])
    IN  /\ axbtn_prev' = rr[1]
        /\ m_res' = rl[2]
        /\ mouse_state' = r[1]
        /\ mouse_sent' = r[2]
        /\ mouse_last' = LastSent(mouse_last, r[2], 1)

MousePolled(v, modDown, rl) ==
    MouseReconciled(rl,
                    poll_axbtn_any("mouse_right", m_cfg.mouse_right_axis, m_cfg.hys,
                                   modDown, v, rl[1]),
                    any_btn(m_cfg, btn_hold_state, modDown))

\* main loop, axis-as-button polling of the mouse actions and mouse_reconcile
MousePoll ==
    /\ pc = "h_poll"
    /\ \E v \in AxisVals :
          /\ m_val' = v
          /\ MousePolled(v, modifier_is_down(m_cfg, m_mod),
                         poll_axbtn_any("mouse_left", m_cfg.mouse_left_axis, m_cfg.hys,
                                        modifier_is_down(m_cfg, m_mod), v, axbtn_prev))
    /\ pc' = "h_events"
    /\ UNCHANGED <<ini, conf, now, detVars, execVars, histVars, logVars, togVars, m_cfg,
                   m_mod, m_btn, btn_hold_state, hold_asserted, accelVars>>

----------------------------------------------------------------------------
(* DCSMouseController.py: hold acceleration of the nudges.  Times are in   *)
(* ms, a multiplier is an exact rational.                                  *)

\* The nudge directions with a hold timer.
Dirs == {"inc_x", "dec_x"}

\* load_config: hold_accel_enable, hold_accel_after_ms, hold_accel_ramp_ms and
\* hold_accel_max
AccelConfigs ==
    [hold_accel_enable : BOOLEAN, hold_accel_after_ms : {0, 200},
     hold_accel_ramp_ms : {0, 400}, hold_accel_max : {RInt(3), Rat(5, 2)}]

\* main, "Update hold timers for acceleration"
HoldTimers(started, flags, t) ==
    [key \in Dirs |->
       IF flags[key]
       THEN (IF started[key] = None THEN Some(t) ELSE started[key])
       ELSE None]

\* Mutant of accel_mult_for: the progress is not capped at 1.0.
accel_mult_for_uncapped(c, t0, t) ==
    IF ~c.hold_accel_enable THEN RInt(1)
    ELSE IF t0 = None THEN RInt(1)
    ELSE IF t - t0[1] <= c.hold_accel_after_ms THEN RInt(1)
    ELSE RAdd(RInt(1),
              RMul(RSub(c.hold_accel_max, RInt(1)),
                   Rat(t - t0[1] - c.hold_accel_after_ms,
                       Max(1, c.hold_accel_ramp_ms))))

\* accel_mult_for(key), with t0 = hold_started_at.get(key) and now = t
accel_mult_for(c, t0, t) ==
    IF ~c.hold_accel_enable THEN RInt(1)
    ELSE IF t0 = None THEN RInt(1)
    ELSE IF t - t0[1] <= c.hold_accel_after_ms THEN RInt(1)
    ELSE LET ramp_ms == Max(1, c.hold_accel_ramp_ms)
             q       == Rat(t - t0[1] - c.hold_accel_after_ms, ramp_ms)
             prog    == IF RLeq(RInt(1), q) THEN RInt(1) ELSE q
         IN  RAdd(RInt(1), RMul(RSub(c.hold_accel_max, RInt(1)), prog))

\* The iteration at time t in which the directions are held as flags says.
AccelIteration(flags, t) ==
    /\ now' = t
    /\ hold_flags' = flags
    /\ hold_started_at' = HoldTimers(hold_started_at, flags, t)
    /\ accel_mult' = [key \in Dirs |->
                        accel_mult_for(m_cfg, HoldTimers(hold_started_at, flags, t)[key], t)]

\* main loop: one iteration, from "now = time.monotonic()" to the multipliers
AccelTick ==
    /\ pc = "a_tick"
    /\ \E d \in {100, 200}, flags \in [Dirs -> BOOLEAN] :
          /\ now + d <= MaxTimeAccel
          /\ AccelIteration(flags, now + d)
    /\ UNCHANGED <<ini, conf, pc, detVars, execVars, histVars, logVars, togVars, m_cfg,
                   m_mod, m_val, axbtn_prev, m_res, m_btn, btn_hold_state, hold_asserted,
                   mouseVars>>

----------------------------------------------------------------------------
(* DCSMouseController.py: the active / inactive toggle of main().  Times   *)
(* are in ms, positions are <<x, y>> pixels, a rect is [x, y, w, h].       *)

\* debounce_s = 0.15
DebounceMs == 150

\* The selected monitor, the virtual desktop and the client rect of the target
\* window (when find_window finds it).
Monitor        == [x |-> 0, y |-> 0, w |-> 3, h |-> 2]
VirtualDesktop == [x |-> 0, y |-> 0, w |-> 4, h |-> 2]
WindowRect     == [x |-> 1, y |-> 0, w |-> 2, h |-> 2]

\* load_config: the keys toggle_on, toggle_off and apply_cursor read
TogConf(n) ==
    CASE n = "restore" ->
           [x |-> 1, y |-> 0, clamp_space |-> "monitor", restore_on_off |-> TRUE,
            wiggle_one_pixel |-> TRUE, center_in_window_on_toggle |-> FALSE,
            focus_on_toggle |-> FALSE, startup_grace_ms |-> 100, repeat_ms |-> 200,
            poll_ms |-> 100]
      [] n = "plain" ->
           [x |-> 5, y |-> 1, clamp_space |-> "virtual", restore_on_off |-> FALSE,
            wiggle_one_pixel |-> TRUE, center_in_window_on_toggle |-> FALSE,
            focus_on_toggle |-> FALSE, startup_grace_ms |-> 0, repeat_ms |-> 200,
            poll_ms |-> 100]
      [] n = "window" ->
           [x |-> 0, y |-> 0, clamp_space |-> "window", restore_on_off |-> TRUE,
            wiggle_one_pixel |-> FALSE, center_in_window_on_toggle |-> TRUE,
            focus_on_toggle |-> TRUE, startup_grace_ms |-> 0, repeat_ms |-> 200,
            poll_ms |-> 100]
TogConfigs == {"restore", "plain", "window"}

\* max(r.x, min(r.x + r.w - 1, x)) on both coordinates
ClampRect(r, p) ==
    <<Max(r.x, Min(r.x + r.w - 1, p[1])), Max(r.y, Min(r.y + r.h - 1, p[2]))>>

\* Mutant of clamp_target: every clamp space is the monitor.
clamp_target_monitor(p, clamp_space, window_rect) == ClampRect(Monitor, p)

\* clamp_target(x, y, mon, clamp_space, window_rect)
clamp_target(p, clamp_space, window_rect) ==
    IF clamp_space = "virtual" THEN ClampRect(VirtualDesktop, p)
    ELSE IF clamp_space = "window" /\ window_rect # None THEN ClampRect(window_rect[1], p)
    ELSE ClampRect(Monitor, p)

\* compute_window_target(rect) without window_x / window_x_frac: the centre
compute_window_target(rect) == <<rect.x + rect.w \div 2, rect.y + rect.h \div 2>>

\* The nonlocal state of main() that the toggle handling reads and writes.
TogRecord ==
    [active |-> active, saved_cursor |-> saved_cursor, target |-> target,
     base |-> base, wiggle_flip |-> wiggle_flip, last_toggle |-> last_toggle,
     last_apply |-> last_apply, active_winrect |-> active_winrect,
     cursor |-> os_cursor, accepted |-> 0, step |-> <<0, 0>>]

\* apply_cursor(): move the cursor to the target, one pixel right on a wiggle
apply_cursor(c, s) ==
    [s EXCEPT !.cursor = <<s.target[1]
                             + (IF c.wiggle_one_pixel /\ s.wiggle_flip THEN 1 ELSE 0),
                           s.target[2]>>]

\* toggle_on, "ALWAYS recenter when turning on": the new base
Recenter(c, rect) ==
    IF (c.clamp_space = "window" \/ c.center_in_window_on_toggle) /\ rect # None
    THEN clamp_target(compute_window_target(rect[1]), "window", rect)
    ELSE clamp_target(<<Monitor.x + c.x, Monitor.y + c.y>>, c.clamp_space, rect)

\* toggle_on: the state from the recentred base on
ToggleOnApply(c, s, b, t) ==
    [apply_cursor(c, [s EXCEPT !.base = b, !.target = b, !.active = TRUE])
        EXCEPT !.last_apply = t, !.wiggle_flip = ~s.wiggle_flip]

\* toggle_on(); rect is what the window lookup gave (None when not found or not
\* looked up), t is time.monotonic()
toggle_on(c, s, rect, t) ==
    IF s.active THEN s
    ELSE ToggleOnApply(c, [s EXCEPT !.saved_cursor = Some(s.cursor),
                                    !.active_winrect = rect],
                       Recenter(c, rect), t)

\* Mutant of toggle_off: wiggle_flip is not reset.
toggle_offKeepsFlip(c, s, t) ==
    IF ~s.active THEN s
    ELSE [s EXCEPT !.active = FALSE,
                   !.cursor = IF c.restore_on_off /\ s.saved_cursor # None
                              THEN s.saved_cursor[1] ELSE @,
                   !.active_winrect = None,
                   !.last_apply = t]

\* toggle_off()
toggle_off(c, s, t) ==
    IF ~s.active THEN s
    ELSE [s EXCEPT !.active = FALSE,
                   !.cursor = IF c.restore_on_off /\ s.saved_cursor # None
                              THEN s.saved_cursor[1] ELSE @,
                   !.active_winrect = None,
                   !.last_apply = t,
                   !.wiggle_flip = FALSE]

\* "(toggle_off() if active else toggle_on()); last_toggle = now"
ToggleFlip(c, s, rect, t) ==
    [(IF s.active THEN toggle_off(c, s, t) ELSE toggle_on(c, s, rect, t))
        EXCEPT !.last_toggle = t, !.accepted = s.accepted + 1]

\* The window rects toggle_on can get: the lookup runs only for these settings.
RectsFound(c) ==
    IF c.focus_on_toggle \/ c.center_in_window_on_toggle \/ c.clamp_space = "window"
    THEN {None, Some(WindowRect)}
    ELSE {None}

\* main, "for event in pygame.event.get()": the JOYBUTTONDOWN / JOYBUTTONUP events
\* of the toggle button from event k on; tte is toggled_this_event
RECURSIVE TogEventsFrom(_, _, _, _, _, _, _, _)
TogEventsFrom(c, s, evs, k, tte, act, rect, t) ==
    IF k > Len(evs) THEN s
    ELSE IF t < c.startup_grace_ms \/ ~act
         THEN TogEventsFrom(c, s, evs, k + 1, tte, act, rect, t)
    ELSE IF evs[k] /\ ~tte /\ (t - s.last_toggle) >= DebounceMs
         THEN TogEventsFrom(c, ToggleFlip(c, s, rect, t), evs, k + 1, TRUE, act, rect, t)
    ELSE TogEventsFrom(c, s, evs, k + 1, tte, act, rect, t)

\* poll_axbtn_any("toggle") for one active axis binding whose edge_down is ed
TogAxisEdge(c, s, ed, rect, t) ==
    IF ed /\ (t - s.last_toggle) >= DebounceMs THEN ToggleFlip(c, s, rect, t) ELSE s

\* Where the target window is once the user has moved it.
MovedWindowRect == [x |-> 0, y |-> 1, w |-> 2, h |-> 1]

\* main, "refresh window rect (window may move/resize)": what active_winrect
\* can be afterwards
RectsRefreshed(c, s) ==
    IF c.clamp_space = "window" /\ s.active /\ s.active_winrect # None
    THEN {s.active_winrect, Some(MovedWindowRect)}
    ELSE {s.active_winrect}

\* main, "APPLY MOVEMENT" for the summed step
TogMoved(c, s, step, t) ==
    IF step = <<0, 0>> THEN s
    ELSE IF s.active
         THEN [apply_cursor(c, [s EXCEPT !.target =
                   clamp_target(<<s.target[1] + step[1], s.target[2] + step[2]>>,
                                c.clamp_space, s.active_winrect),
                                         !.step = step])
                  EXCEPT !.last_apply = t, !.wiggle_flip = ~s.wiggle_flip]
    ELSE [s EXCEPT !.target =
             clamp_target(<<s.target[1] + step[1], s.target[2] + step[2]>>,
                          c.clamp_space, s.active_winrect),
                   !.step = step]

\* main, "Periodic re-apply"
TogReapplied(c, s, t) ==
    IF s.active /\ (t - s.last_apply) >= c.repeat_ms
    THEN [apply_cursor(c, s) EXCEPT !.last_apply = t, !.wiggle_flip = ~s.wiggle_flip]
    ELSE s

\* The step leaves the nonlocal state of main() as s and goes on at next.
TogSet(s, next) ==
    /\ active' = s.active
    /\ saved_cursor' = s.saved_cursor
    /\ target' = s.target
    /\ base' = s.base
    /\ wiggle_flip' = s.wiggle_flip
    /\ last_toggle' = s.last_toggle
    /\ last_apply' = s.last_apply
    /\ active_winrect' = s.active_winrect
    /\ os_cursor' = s.cursor
    /\ accepted' = s.accepted
    /\ stepped' = s.step
    /\ pc' = next
    /\ UNCHANGED <<ini, conf, now, detVars, execVars, histVars, logVars, t_cfg>>

\* The step leaves main()'s state as s and goes on at next.
SetTog(s, next) == TogSet(s, next) /\ UNCHANGED monoVars

\* Sequences of button events (TRUE = JOYBUTTONDOWN) one event.get() can return.
TogEventLists == {<<>>, <<TRUE>>, <<FALSE>>, <<TRUE, FALSE>>, <<TRUE, TRUE>>, <<FALSE, TRUE>>}

\* main loop, button event processing
TogEvents ==
    /\ pc = "t_events"
    /\ \E evs \in TogEventLists, act \in BOOLEAN, rect \in RectsFound(t_cfg) :
          SetTog(TogEventsFrom(t_cfg, TogRecord, evs, 1, FALSE, act, rect, now), "t_axbtn")

\* main loop, axis-as-button polling of "toggle"
TogAxbtn ==
    /\ pc = "t_axbtn"
    /\ \E ed \in BOOLEAN, rect \in RectsFound(t_cfg) :
          SetTog(TogAxisEdge(t_cfg, TogRecord, ed, rect, now), "t_move")

\* The summed movement steps of one iteration
TogSteps == {<<0, 0>>, <<1, 0>>, <<-1, 0>>, <<0, 1>>}

\* main loop, movement
TogMove ==
    /\ pc = "t_move"
    /\ \E step \in TogSteps, rect \in RectsRefreshed(t_cfg, TogRecord) :
          SetTog(TogMoved(t_cfg, [TogRecord EXCEPT !.active_winrect = rect], step, now),
                 "t_apply")

\* main loop, periodic re-apply
TogReapply ==
    /\ pc = "t_apply"
    /\ SetTog(TogReapplied(t_cfg, TogRecord, now), "t_sleep")

\* Where the user can put the cursor with the physical mouse meanwhile.
UserPositions == {<<0, 0>>, <<3, 1>>}

\* The next iteration reads the clock at t; the user may move the mouse.
TogSlept(t) ==
    /\ t <= MaxTimeTog
    /\ now' = t
    /\ os_cursor' \in {os_cursor} \cup UserPositions
    /\ accepted' = 0
    /\ stepped' = <<0, 0>>
    /\ pc' = "t_events"
    /\ UNCHANGED <<ini, conf, detVars, execVars, histVars, monoVars, logVars, t_cfg, active,
                   saved_cursor, target, base, wiggle_flip, last_toggle, last_apply,
                   active_winrect>>

\* time.sleep(1 / poll_hz), possibly overrunning
TogSleep ==
    /\ pc = "t_sleep"
    /\ \E d \in {t_cfg.poll_ms, 2 * t_cfg.poll_ms} : TogSlept(now + d)

\* load_config: the axis-threshold binding of "toggle" and the hysteresis, with
\* a modifier button configured
EdgeConfigs ==
    {[b |-> [dir |-> "pos", thr |-> 2, req_mod |-> FALSE], hys |-> 1],
     [b |-> [dir |-> "abs", thr |-> 3, req_mod |-> TRUE],  hys |-> 0]}

\* poll_axbtn_any("toggle") with the result r of the polling of its binding
TogPolled(r, rect) ==
    /\ axbtn_prev' = r[1]
    /\ m_res' = r[2]
    /\ TogSet(TogAxisEdge(t_cfg, TogRecord, r[2] # None /\ r[2][1][2], rect, now), "t_move")

\* main loop, axis-as-button polling of "toggle": the axis and the modifier are
\* sampled, the binding is polled and its edge_down toggles
TogAxbtnPolled ==
    /\ pc = "t_axbtn"
    /\ \E v \in AxisVals, md \in BOOLEAN, rect \in RectsFound(t_cfg) :
          /\ m_val' = v
          /\ m_mod' = md
          /\ TogPolled(poll_axbtn_any("toggle", m_cfg.b, m_cfg.hys, md, v, axbtn_prev), rect)
    /\ UNCHANGED <<m_cfg, m_btn, btn_hold_state, hold_asserted, mouseVars, accelVars>>

\* What the button event processing of an iteration can take before the axis
\* polling reads time.monotonic() again: toggle_on sleeps 50 ms after
\* focus_window, focus_window 50 ms when it restores the window, and
\* pyautogui.moveTo pauses 100 ms.
IterationMs == {0, 50, 150}

\* main loop, axis-as-button polling of "toggle", the clock read anew
TogAxbtnLate ==
    /\ pc = "t_axbtn"
    /\ \E ed \in BOOLEAN, rect \in RectsFound(t_cfg), e \in IterationMs :
          SetTog(TogAxisEdge(t_cfg, TogRecord, ed, rect, now + e), "t_move")

\* time.sleep(1 / poll_hz) after an iteration that ended no earlier than the
\* last clock reading it stored
TogSleepLate ==
    /\ pc = "t_sleep"
    /\ \E d \in {t_cfg.poll_ms, 2 * t_cfg.poll_ms} :
          TogSlept(Max(now, Max(last_toggle, last_apply)) + d)

----------------------------------------------------------------------------
(* bindings.py: parsing the binding expressions.  An expression is the list  *)
(* of its tokens between the colons; a token is its text with a final letter *)
(* m or M, if it has one, held apart (mark).                                 *)

Tok(core, mark) == [core |-> core, mark |-> mark]
T(core) == Tok(core, "")

TokText(t) == t.core \o t.mark

\* int(text): the value, for the texts int() accepts
IntTexts == [s \in {"-1", "0", "1", "2", "3"} |->
               CASE s = "-1" -> -1 [] s = "0" -> 0 [] s = "1" -> 1
                 [] s = "2" -> 2 [] s = "3" -> 3]
IsInt(t) == t.mark = "" /\ t.core \in DOMAIN IntTexts
IntOf(t) == IntTexts[t.core]

\* str.isdigit()
IsDigit(t) == t.mark = "" /\ t.core \in {"0", "1", "2", "3"}

\* float(text), in axis units, for the texts float() accepts
FloatTexts == [s \in {"-0.5", "0", "0.25", "0.5", "0.75", "1", "1.5"} |->
                 CASE s = "-0.5" -> -2 [] s = "0" -> 0 [] s = "0.25" -> 1
                   [] s = "0.5" -> 2 [] s = "0.75" -> 3 [] s = "1" -> AxisScale
                   [] s = "1.5" -> 6]
IsFloat(t) == t.mark = "" /\ t.core \in DOMAIN FloatTexts
FloatOf(t) == FloatTexts[t.core]

\* The outcome of a parse: a value, or an exception (ValueError, IndexError).
Parsed(v) == [ok |-> TRUE, val |-> v]
Raises    == [ok |-> FALSE, val |-> None]

\* Mutant of ButtonId: the number is stored as written.
ButtonIdAsWritten(n) == n

\* parse_input: "btn_number - 1"
ButtonId(n) == n - 1

\* parse_input, "if parts[-1] in ("M", ":M")": split(":") never yields ":M"
IsLayerToken(t) == t = Tok("", "M")

\* parse_input after the marker was taken off: parts, modifier_layer
ParseParts(parts, layer) ==
    IF Len(parts) < 1 THEN Raises
    ELSE IF parts[1] # T("dev") THEN Raises
    ELSE IF Len(parts) < 3 THEN Raises
    ELSE LET guid  == IF IsDigit(parts[2]) THEN "" ELSE TokText(parts[2])
             index == IF IsDigit(parts[2]) THEN Some(IntOf(parts[2])) ELSE None
         IN  IF parts[3] = T("button")
             THEN IF Len(parts) < 4 \/ ~IsInt(parts[4]) THEN Raises
                  ELSE IF IntOf(parts[4]) <= 0 THEN Raises
                  ELSE Parsed(InputBinding(guid, index, "button",
                                           ButtonId(IntOf(parts[4])), "", None, layer))
             ELSE IF parts[3] = T("axis")
             THEN IF Len(parts) < 4 \/ ~IsInt(parts[4]) THEN Raises
                  ELSE IF Len(parts) > 4
                       THEN IF TokText(parts[5]) \in {"pos", "neg", "abs"}
                            THEN IF Len(parts) < 6 \/ ~IsFloat(parts[6]) THEN Raises
                                 ELSE Parsed(InputBinding(guid, index, "axis",
                                          IntOf(parts[4]), TokText(parts[5]),
                                          Some(FloatOf(parts[6])), layer))
                            ELSE Parsed(InputBinding(guid, index, "axis",
                                          IntOf(parts[4]), TokText(parts[5]), None, layer))
                       ELSE Parsed(InputBinding(guid, index, "axis", IntOf(parts[4]),
                                                "", None, layer))
             ELSE Raises

\* parse_input(binding_str), binding_str.split(":") being parts
parse_input(parts) ==
    IF IsLayerToken(parts[Len(parts)])
    THEN ParseParts(SubSeq(parts, 1, Len(parts) - 1), TRUE)
    ELSE ParseParts(parts, FALSE)

\* InputConfig.from_ini: the modifier, None when the option is absent
ModifierFromIni(f) ==
    IF f.modifier = None THEN Parsed(None)
    ELSE LET r == parse_input(f.modifier[1])
         IN  IF r.ok THEN Parsed(Some(r.val)) ELSE Raises

\* KeyMapConfig.from_ini: outputs of an entry are appended to the BindingMap
\* with an equal input, if there is one
MergeMapping(maps, inp, out) ==
    IF \E k \in 1 .. Len(maps) : maps[k].input = inp
    THEN [k \in 1 .. Len(maps) |->
            IF maps[k].input = inp
               /\ \A j \in 1 .. (k - 1) : maps[j].input # inp
            THEN [maps[k] EXCEPT !.outputs = Append(@, out)] ELSE maps[k]]
    ELSE Append(maps, BindingMap(inp, <<out>>))

\* KeyMapConfig.from_ini, the loop over the entries from entry k on
RECURSIVE KeyMapsFrom(_, _, _)
KeyMapsFrom(entries, k, maps) ==
    IF k > Len(entries) THEN Parsed(maps)
    ELSE LET r == parse_input(entries[k].lhs)
         IN  IF r.ok
             THEN KeyMapsFrom(entries, k + 1, MergeMapping(maps, r.val, entries[k].rhs))
             ELSE Raises

\* run_main up to the loop: the configuration, or the exception that ends the run
LoadIni(c, f) ==
    LET m == ModifierFromIni(f) IN
    IF ~m.ok THEN Raises
    ELSE LET km == KeyMapsFrom(f.key_mappings, 1, <<>>)
         IN  IF ~km.ok THEN Raises
             ELSE Parsed([c EXCEPT !.modifier = m.val, !.bindings = km.val])

\* The input expressions of the files read: buttons written 1-based, with
\* numbers that are not positive, axes with thresholds inside and outside
\* [0,1], and the modifier marker as a token or a suffix in both cases.
Dev0 == <<T("dev"), T("0")>>
InputTexts ==
    {Dev0 \o <<T("button"), T(n)>> : n \in {"-1", "0", "1", "2"}}
      \cup {Dev0 \o <<T("button"), T("1"), Tok("", m)>> : m \in {"M", "m"}}
      \cup {Dev0 \o <<T("button"), Tok("1", m)>> : m \in {"M", "m"}}
      \cup {Dev0 \o <<T("axis"), T("0"), T("pos"), T(t)>> :
                t \in {"-0.5", "0.5", "1", "1.5"}}
      \cup {Dev0 \o <<T("axis"), T("0")>>,
            Dev0 \o <<T("axis"), T("0"), Tok("", "M")>>,
            Dev0 \o <<T("axis"), T("0"), Tok("", "m")>>,
            Dev0 \o <<T("axis"), Tok("0", "M")>>,
            Dev0 \o <<T("axis"), T("0"), T("abs"), T("0.5"), Tok("", "M")>>,
            Dev0 \o <<T("axis"), T("0"), T("abs"), Tok("0.5", "m")>>}

ModifierTexts ==
    {None} \cup {Some(Dev0 \o <<T("button"), T(n)>>) : n \in {"0", "2"}}

IniFiles ==
    {[modifier |-> m, key_mappings |-> <<[lhs |-> t, rhs |-> Key("P", "hold")]>>] :
        m \in ModifierTexts, t \in InputTexts}

\* What is fixed before the file is read: the attached device and the horizon.
UnloadedConfig ==
    [BaseConfig EXCEPT !.devices = <<Device(2, 1)>>, !.maxTime = MaxTimeLoad]

\* run_main, from IniReader(cfgfile) to the first poll; an exception of the
\* parsers is not caught and ends the process.
Load ==
    /\ pc = "load"
    /\ LET r == LoadIni(conf, ini) IN
         IF r.ok
         THEN /\ conf' = r.val
              /\ pc' = "poll"
              /\ lastEv' = [i \in NB(r.val) |-> "none"]
              /\ computed' = [i \in NB(r.val) |-> "skip"]
              /\ prevComputed' = [i \in NB(r.val) |-> "skip"]
              /\ sent' = [k \in {<<i, o>> : i \in NB(r.val), o \in 1 .. 2} |-> "none"]
              /\ presses' = [i \in NB(r.val) |-> 0]
              /\ warnings' = LoadWarnings(r.val)
         ELSE /\ pc' = "load_failed"
              /\ UNCHANGED <<conf, lastEv, computed, prevComputed, sent, presses,
                             warnings>>
    /\ UNCHANGED <<ini, now, detVars, execVars, axis_hist, iter_log, monoVars, togVars>>

----------------------------------------------------------------------------
(* Initial states *)

InitEngineFrom(confs, inis) ==
    /\ conf \in confs
    /\ ini \in inis
    /\ now = 0
    /\ btn = [d \in {} |-> TRUE]
    /\ axis = [d \in {} |-> TRUE]
    /\ mod_on = FALSE
    /\ last_mod_on = None
    /\ state_cache = EmptyDict
    /\ events = <<>>
    /\ evIdx = 1
    /\ wheel_state = EmptyDict
    /\ increment_state = EmptyDict
    /\ key_toggle_state = EmptyDict
    /\ key_toggle_repeat = EmptyDict
    /\ axis_accum = EmptyDict
    /\ abs_pos = None
    /\ axis_hist = EmptyDict
    /\ iter_log = <<>>
    /\ calls = <<>>
    /\ upd = EmptyDict
    /\ lastEv = [i \in NB(conf) |-> "none"]
    /\ computed = [i \in NB(conf) |-> "skip"]
    /\ prevComputed = [i \in NB(conf) |-> "skip"]
    /\ sent = [k \in {<<i, o>> : i \in NB(conf), o \in 1 .. 2} |-> "none"]
    /\ presses = [i \in NB(conf) |-> 0]
    /\ warnings = LoadWarnings(conf)
    /\ wiggle_active = conf.wiggle_initially_on
    /\ last_wiggle = 0
    /\ wiggle_mode = "relative"
    /\ wiggle_px = conf.wiggle_px
    /\ wiggle_ms = conf.wiggle_ms
    /\ wiggle_moves = NoWiggleMoves
    /\ tap_hist = EmptyDict

\* The configuration is given as parsed values.
InitEngineWith(confs) == InitEngineFrom(confs, {None})

InitEngine(configs) == InitEngineWith({Conf(n) : n \in configs})

\* main() of DCSMouseController.py has not started.
TogIdle ==
    /\ t_cfg = None
    /\ active = FALSE
    /\ saved_cursor = None
    /\ target = <<0, 0>>
    /\ base = <<0, 0>>
    /\ wiggle_flip = FALSE
    /\ last_toggle = 0
    /\ last_apply = 0
    /\ active_winrect = None
    /\ os_cursor = <<0, 0>>
    /\ accepted = 0
    /\ stepped = <<0, 0>>

\* main(): "Initialize per-binding states", nothing held
HoldIdle ==
    /\ m_btn = [k \in HoldButtons |-> FALSE]
    /\ btn_hold_state = [i \in 1 .. 2 |-> FALSE]
    /\ hold_asserted = [mouse_left |-> FALSE, wheel_up |-> FALSE]
    /\ mouse_state = [s \in Sides |-> FALSE]
    /\ mouse_sent = <<>>
    /\ mouse_last = [s \in Sides |-> "none"]
    /\ hold_flags = [key \in Dirs |-> FALSE]
    /\ hold_started_at = [key \in Dirs |-> None]
    /\ accel_mult = [key \in Dirs |-> RInt(1)]

MonoIdle ==
    /\ m_cfg = None
    /\ m_mod = FALSE
    /\ m_val = 0
    /\ axbtn_prev = EmptyDict
    /\ m_res = None
    /\ HoldIdle

\* The thresholds parse_any_binding accepts (0 .. 1) and hysteresis settings,
\* among them ones outside [0, thr].
MonoThresholds == 0 .. AxisScale
MonoHysteresis == {-1, 0, 1, 2, AxisScale + 1}

InitMono ==
    /\ InitEngine({"layers"})
    /\ pc = "mono"
    /\ m_cfg \in [b : [dir : {"pos", "neg", "abs"}, thr : MonoThresholds,
                       req_mod : BOOLEAN],
                  hys : MonoHysteresis]
    /\ m_mod = FALSE
    /\ m_val = 0
    /\ axbtn_prev = EmptyDict
    /\ m_res = None
    /\ HoldIdle
    /\ TogIdle

InitHold ==
    /\ InitEngine({"layers"})
    /\ pc = "h_events"
    /\ m_cfg \in {HoldConf(n) : n \in HoldConfigs}
    /\ m_mod = FALSE
    /\ m_val = 0
    /\ axbtn_prev = EmptyDict
    /\ m_res = None
    /\ HoldIdle
    /\ TogIdle

InitAccel ==
    /\ InitEngine({"layers"})
    /\ pc = "a_tick"
    /\ m_cfg \in AccelConfigs
    /\ m_mod = FALSE
    /\ m_val = 0
    /\ axbtn_prev = EmptyDict
    /\ m_res = None
    /\ HoldIdle
    /\ TogIdle

InitMouse ==
    /\ InitEngine({"layers"})
    /\ pc = "h_events"
    /\ m_cfg \in {MouseConf(n) : n \in MouseConfigs}
    /\ m_mod = FALSE
    /\ m_val = 0
    /\ axbtn_prev = EmptyDict
    /\ m_res = None
    /\ HoldIdle
    /\ TogIdle

\* main() up to "prev_time = time.monotonic()": base target from cfg, inactive
InitToggleWith(configs) ==
    /\ InitEngine({"layers"})
    /\ pc = "t_events"
    /\ t_cfg \in {TogConf(n) : n \in configs}
    /\ active = FALSE
    /\ saved_cursor = None
    /\ base = clamp_target(<<Monitor.x + t_cfg.x, Monitor.y + t_cfg.y>>,
                           t_cfg.clamp_space, None)
    /\ target = base
    /\ wiggle_flip = FALSE
    /\ last_toggle = 0
    /\ last_apply = 0
    /\ active_winrect = None
    /\ os_cursor \in UserPositions
    /\ accepted = 0
    /\ stepped = <<0, 0>>

InitToggle == MonoIdle /\ InitToggleWith(TogConfigs)

InitEdge ==
    /\ InitToggleWith({"restore"})
    /\ m_cfg \in EdgeConfigs
    /\ m_mod = FALSE
    /\ m_val = 0
    /\ axbtn_prev = EmptyDict
    /\ m_res = None
    /\ HoldIdle

Init     == InitEngine(KeyConfigs) /\ pc = "poll" /\ MonoIdle /\ TogIdle
InitRamp == InitEngine(RampConfigs) /\ pc = "poll" /\ MonoIdle /\ TogIdle
InitAxis == InitEngine(AxisConfigs) /\ pc = "poll" /\ MonoIdle /\ TogIdle
InitWiggle == InitEngine(WiggleConfigs) /\ pc = "poll" /\ MonoIdle /\ TogIdle
InitOverlap ==
    InitEngine({"thresholds", "sameid", "single", "twolists"}) /\ pc = "poll" /\ MonoIdle /\ TogIdle
InitLive == InitEngine({"holds"}) /\ pc = "poll" /\ MonoIdle /\ TogIdle
InitRepeat == InitEngine({"toggles"}) /\ pc = "poll" /\ MonoIdle /\ TogIdle
InitLoad ==
    /\ InitEngineFrom({UnloadedConfig}, IniFiles)
    /\ pc = "load" /\ MonoIdle /\ TogIdle
InitModifier ==
    /\ InitEngineWith({ModConf(m) : m \in ModifierBindings})
    /\ pc = "poll" /\ MonoIdle /\ TogIdle

Next     == Poll \/ HandleEvent \/ Update \/ Sleep \/ Interrupt
LoadNext == Load \/ Next
LiveNext == Poll \/ HandleEvent \/ Update \/ Sleep \/ SleepOn
MonoNext == MonoPoll
HoldNext == HoldEvents \/ HoldPoll
MouseNext == HoldEvents \/ MousePoll
AccelNext == AccelTick
TogNext  == TogEvents \/ TogAxbtn \/ TogMove \/ TogReapply \/ TogSleep
TogEdgeNext == TogEvents \/ TogAxbtnPolled \/ TogMove \/ TogReapply \/ TogSleep
TogLateNext == TogEvents \/ TogAxbtnLate \/ TogMove \/ TogReapply \/ TogSleepLate

Spec     == Init /\ [][Next]_vars
SpecRamp == InitRamp /\ [][Next]_vars
SpecAxis == InitAxis /\ [][Next]_vars
SpecModifier == InitModifier /\ [][Next]_vars
SpecWiggle == InitWiggle /\ [][Next]_vars
SpecLoad == InitLoad /\ [][LoadNext]_vars
SpecRepeat == InitRepeat /\ [][Next]_vars
SpecOverlap == InitOverlap /\ [][Next]_vars

\* "while True": the loop is never interrupted and each of its calls returns.
SpecLive ==
    /\ InitLive /\ [][LiveNext]_vars
    /\ WF_vars(Poll) /\ WF_vars(HandleEvent) /\ WF_vars(Update)
    /\ WF_vars(Sleep \/ SleepOn)
SpecMono == InitMono /\ [][MonoNext]_vars
SpecHold == InitHold /\ [][HoldNext]_vars
SpecMouse == InitMouse /\ [][MouseNext]_vars
SpecAccel == InitAccel /\ [][AccelNext]_vars
SpecToggle == InitToggle /\ [][TogNext]_vars
SpecEdge == InitEdge /\ [][TogEdgeNext]_vars
SpecDebounce == InitToggle /\ [][TogLateNext]_vars

----------------------------------------------------------------------------
(* Vocabulary of the properties *)

\* The events of binding i in the list returned by the last poll.
EventsOf(i) == {k \in 1 .. Len(events) : events[k].b = i}

\* Poll has just run in this step.
PollStep == pc = "poll" /\ pc' = "dispatch"

\* handle_event has just run in this step, for events[evIdx].
HandleStep == pc = "dispatch" /\ evIdx <= Len(events) /\ evIdx' = evIdx + 1

\* The calls of the last step that output o of binding b made, by operation.
CallsOf(cs, b, o, ops) ==
    {k \in 1 .. Len(cs) : cs[k].b = b /\ cs[k].o = o /\ cs[k].op \in ops}

----------------------------------------------------------------------------
(* C1: in InputDetector.poll, the events of a digital binding strictly      *)
(* alternate press, release, press, ... starting with a press, a poll emits *)
(* at most one event per binding, and a tick in which the computed state is *)
(* the same as in the tick before emits no event for the binding.           *)
C1_EdgesAlternate ==
    [][PollStep =>
         \A i \in NB(conf) : IsDigital(conf, i) =>
            /\ Cardinality(EventsOf(i)') <= 1
            /\ \A k \in EventsOf(i)' :
                  IF events'[k].pressed THEN lastEv[i] \in {"none", "release"}
                  ELSE lastEv[i] = "press"
            /\ (computed[i] \in {"on", "off"} /\ computed'[i] = computed[i])
                  => EventsOf(i)' = {}]_vars

\* C1 witness: the second tick of a run of "pressed" ticks, after the one press
\* event, with no event in it.
C1_Witness ==
    \E i \in NB(conf) :
        /\ IsDigital(conf, i)
        /\ prevComputed[i] = "on" /\ computed[i] = "on"
        /\ lastEv[i] = "press"
        /\ EventsOf(i) = {}

HasCounterpart(c, i) ==
    /\ ~Bindings(c)[i].input.modifier_layer
    /\ IndexHasMod(c, Bindings(c)[i].input)

(* C3: when a base binding has a modified counterpart on the same physical  *)
(* input and the modifier is asserted while the input is held, the base     *)
(* binding's hold effect has ended by the end of that tick (the Executor    *)
(* was given its release), and it emits nothing while the modifier is on.   *)
C3_BaseSuppressedMidHold ==
    (pc = "sleep" /\ mod_on) =>
        \A i \in NB(conf) : HasCounterpart(conf, i) =>
            /\ EventsOf(i) = {}
            /\ \A o \in 1 .. Len(Outputs(conf, i)) :
                  Outputs(conf, i)[o].mode = "hold" => sent[<<i, o>>] # "down"

----------------------------------------------------------------------------
(* Press and release bounds of an axis-as-button with threshold t and       *)
(* hysteresis h, as the specification states them.                          *)

ReachesPressBound(v, dir, t) ==
    IF dir = "pos" THEN v >= t ELSE IF dir = "neg" THEN v <= -t ELSE Abs(v) >= t

PastReleaseBound(v, dir, t, h) ==
    IF dir = "pos" THEN v < t - h ELSE IF dir = "neg" THEN v > -(t - h)
    ELSE Abs(v) < t - h

StrictlyInBand(v, dir, t, h) ==
    IF dir = "pos" THEN t - h < v /\ v < t
    ELSE IF dir = "neg" THEN -t < v /\ v < -(t - h)
    ELSE t - h < Abs(v) /\ Abs(v) < t

ClampedThr == Max(0, Min(AxisScale, m_cfg.b.thr))
ClampedHys == Max(0, Min(ClampedThr, m_cfg.hys))

(* C4: axis_to_button with t clamped to [0,1] and h clamped to [0,t]: a     *)
(* released input becomes pressed only at the press bound, a pressed input  *)
(* is released only past the release bound t-h, the edges are reported      *)
(* exactly on those changes, and a sample strictly between t-h and t        *)
(* changes nothing and reports no edge.                                     *)
C4_AxisToButtonHysteresis ==
    [][(m_res' # None) =>
         LET prev == DictGet(axbtn_prev, <<"wheel_up", 0>>, FALSE)
             r    == m_res'[1]
             d    == m_cfg.b.dir
         IN  /\ r[4] = m_val'
             /\ (~prev /\ r[1]) => ReachesPressBound(r[4], d, ClampedThr)
             /\ (prev /\ ~r[1]) => PastReleaseBound(r[4], d, ClampedThr, ClampedHys)
             /\ r[2] = (r[1] /\ ~prev)
             /\ r[3] = (~r[1] /\ prev)
             /\ StrictlyInBand(r[4], d, ClampedThr, ClampedHys)
                   => (r[1] = prev /\ ~r[2] /\ ~r[3])
             /\ axbtn_prev'[<<"wheel_up", 0>>] = r[1]]_vars

\* C4 witness: a pressed input sampled strictly inside the band stays pressed.
C4_Witness ==
    /\ m_res # None
    /\ m_res[1][1] /\ ~m_res[1][2] /\ ~m_res[1][3]
    /\ StrictlyInBand(m_val, m_cfg.b.dir, ClampedThr, ClampedHys)

(* C5: InputDetector.poll evaluates an axis-as-button binding with          *)
(* hysteresis: for some h in [0, t], a live binding is pressed whenever the *)
(* value reaches the press bound t, and no release event is emitted while   *)
(* the value is at or beyond the release bound t-h.                         *)
C5_DetectorHysteresis ==
    \A i \in NB(conf) :
        LET ib == Bindings(conf)[i].input IN
        (ib.input_type = "axis" /\ ib.axis_mode \in {"pos", "neg", "abs"}
            /\ computed[i] \in {"on", "off"}) =>
           \E h \in 0 .. ib.threshold[1] :
              LET v == axis[0][ib.input_id] IN
              /\ ReachesPressBound(v, ib.axis_mode, ib.threshold[1])
                    => computed[i] = "on"
              /\ \A k \in EventsOf(i) :
                    ~events[k].pressed
                        => PastReleaseBound(v, ib.axis_mode, ib.threshold[1], h)

----------------------------------------------------------------------------
(* Ramped hold actions *)

\* The ramp entry of key k (wheel keys have five components, increment keys four).
RampEntryOf(k) == IF k \in DOMAIN wheel_state THEN wheel_state[k] ELSE increment_state[k]

TickOps == {"wheel", "move_relative", "set_position_pixels"}

\* The elapsed times of the frame grid up to e.
GridUpTo(c, e) == {FrameMs(c) * j : j \in 0 .. (e \div FrameMs(c))}

C7_TicksPerUpdate ==
    \A k \in DOMAIN upd :
        LET u   == upd[k]
            st  == RampEntryOf(k)
            gap == RSub(RInt(u.now), u.last0)
            n   == RFloor(RDiv(gap, u.interval))
            rem == RSub(RInt(u.now), u.last)
        IN  /\ RMul(u.interval, u.rate) = RInt(1000)
            /\ u.ticks = n
            /\ Cardinality(CallsOf(calls, st.b, st.o, TickOps)) = n
            /\ u.last = RAdd(u.last0, RMul(RInt(n), u.interval))
            /\ st.last = u.last
            /\ RLeq(RInt(0), rem) /\ RLt(rem, u.interval)

\* C7 witness: an update that emits two or more ticks and leaves a remainder.
C7_Witness ==
    \E k \in DOMAIN upd :
        /\ upd[k].ticks >= 2
        /\ RLt(upd[k].last, RInt(upd[k].now))

(* C8: a release event of a wheel or increment binding removes its ramp     *)
(* entry; update() ticks only for bindings whose last event is a press; and *)
(* the update of the tick of a press computes elapsed time 0 and the rate   *)
(* init, also when the binding was held and released before.                *)
C8_ReleaseResetsRamp ==
    /\ (pc = "dispatch" /\ evIdx > 1 /\ ~events[evIdx - 1].pressed) =>
          LET i == events[evIdx - 1].b IN
          \A o \in 1 .. Len(Outputs(conf, i)) :
             LET out == Outputs(conf, i)[o] IN
             /\ out.type = "mouse_wheel" =>
                   WheelKey(Bindings(conf)[i].input, out) \notin DOMAIN wheel_state
             /\ out.type = "mouse_increment" =>
                   IncKey(Bindings(conf)[i].input, out) \notin DOMAIN increment_state
    /\ pc = "sleep" =>
          /\ \A k \in 1 .. Len(calls) :
                calls[k].op \in TickOps => lastEv[calls[k].b] = "press"
          /\ \A k \in (DOMAIN wheel_state) \cup (DOMAIN increment_state) :
                /\ k \in DOMAIN upd
                /\ lastEv[RampEntryOf(k).b] = "press"
                /\ EventsOf(RampEntryOf(k).b) # {} =>
                      /\ upd[k].elapsed_ms = 0
                      /\ upd[k].rate = RInt(upd[k].init)
                      /\ upd[k].ticks = 0

\* C8 witness: the update of the tick of a second press, after an earlier hold
\* was released, starts again at elapsed time 0.
C8_Witness ==
    /\ pc = "sleep"
    /\ \E k \in DOMAIN upd :
          /\ presses[RampEntryOf(k).b] = 2
          /\ EventsOf(RampEntryOf(k).b) # {}
          /\ upd[k].elapsed_ms = 0
          /\ upd[k].rate = RInt(upd[k].init)
          /\ upd[k].now >= 1000

----------------------------------------------------------------------------
(* Key and mouse-button actions *)

DownOps == {"key_down", "button_down"}
UpOps   == {"key_up", "button_up"}
AllOps  == DownOps \cup UpOps \cup TickOps \cup {"tap", "click"}

IsKeyOrButton(out) == out.type \in {"key", "mouse_button"}

(* C9: for a key or mouse-button action in hold mode, handle_event makes    *)
(* exactly one down call for a press event and exactly one up call for a    *)
(* release event, and the downs and ups of a binding alternate, starting    *)
(* with a down.                                                             *)
C9_HoldDownUp ==
    [][HandleStep =>
         LET ev == events[evIdx]
             i  == ev.b
         IN  \A o \in 1 .. Len(Outputs(conf, i)) :
                (Outputs(conf, i)[o].mode = "hold" /\ IsKeyOrButton(Outputs(conf, i)[o])) =>
                   /\ Cardinality(CallsOf(calls', i, o, AllOps)) = 1
                   /\ Cardinality(CallsOf(calls', i, o,
                                          IF ev.pressed THEN DownOps ELSE UpOps)) = 1
                   /\ IF ev.pressed THEN sent[<<i, o>>] # "down"
                      ELSE sent[<<i, o>>] = "down"]_vars

\* The part of C9 about key actions alone (holds).
C9_KeyHoldDownUp ==
    [][HandleStep =>
         LET ev == events[evIdx]
             i  == ev.b
         IN  \A o \in 1 .. Len(Outputs(conf, i)) :
                (Outputs(conf, i)[o].mode = "hold" /\ Outputs(conf, i)[o].type = "key") =>
                   /\ Cardinality(CallsOf(calls', i, o, AllOps)) = 1
                   /\ Cardinality(CallsOf(calls', i, o,
                                          IF ev.pressed THEN {"key_down"} ELSE {"key_up"})) = 1
                   /\ IF ev.pressed THEN sent[<<i, o>>] # "down"
                      ELSE sent[<<i, o>>] = "down"]_vars

ExecFields == <<wheel_state, increment_state, key_toggle_state, key_toggle_repeat,
                axis_accum, abs_pos>>

AllSingle(c, i) ==
    \A o \in 1 .. Len(Outputs(c, i)) :
        Outputs(c, i)[o].mode = "single" /\ IsKeyOrButton(Outputs(c, i)[o])

(* C10: for a key or mouse-button action in single mode, a press event      *)
(* produces exactly one tap / click, and a release event produces no call   *)
(* and changes no executor state.                                           *)
C10_SingleTapOnPress ==
    [][HandleStep =>
         LET ev == events[evIdx]
             i  == ev.b
         IN  \A o \in 1 .. Len(Outputs(conf, i)) :
                (Outputs(conf, i)[o].mode = "single" /\ IsKeyOrButton(Outputs(conf, i)[o])) =>
                   IF ev.pressed
                   THEN /\ Cardinality(CallsOf(calls', i, o, {"tap", "click"})) = 1
                        /\ Cardinality(CallsOf(calls', i, o, AllOps)) = 1
                   ELSE /\ CallsOf(calls', i, o, AllOps) = {}
                        /\ AllSingle(conf, i) => UNCHANGED <<ExecFields, now>>]_vars

\* The part of C10 about key actions alone (holds).
C10_KeySingleTapOnPress ==
    [][HandleStep =>
         LET ev == events[evIdx]
             i  == ev.b
         IN  \A o \in 1 .. Len(Outputs(conf, i)) :
                (Outputs(conf, i)[o].mode = "single" /\ Outputs(conf, i)[o].type = "key") =>
                   IF ev.pressed
                   THEN /\ Cardinality(CallsOf(calls', i, o, {"tap"})) = 1
                        /\ Cardinality(CallsOf(calls', i, o, AllOps)) = 1
                   ELSE /\ CallsOf(calls', i, o, AllOps) = {}
                        /\ AllSingle(conf, i) => UNCHANGED <<ExecFields, now>>]_vars

----------------------------------------------------------------------------
(* Toggle-mode keys *)

\* key_id of _exec_key for output o of binding i
ToggleKeyId(c, i, o) ==
    <<Outputs(c, i)[o].type, Outputs(c, i)[o].value,
      Bindings(c)[i].input.device_guid, Bindings(c)[i].input.input_id>>

IsToggleKey(out) == out.type = "key" /\ out.mode = "toggle"

ToggleOn(ts, k) == DictGet(ts, k, FALSE)

(* C11: in every state a repeat timer exists for a toggle key exactly when  *)
(* its toggle state is on; handling a press event of a toggle-mode key      *)
(* flips the state of its key (off to on: one key_down, the timer is        *)
(* created; on to off: one key_up, the timer is removed); handling a        *)
(* release event changes neither the state nor the timers and makes no call.*)
C11_ToggleTwoStates ==
    [][/\ \A k \in (DOMAIN key_toggle_state') \cup (DOMAIN key_toggle_repeat') :
             (k \in DOMAIN key_toggle_repeat') <=> ToggleOn(key_toggle_state', k)
       /\ HandleStep =>
            LET ev == events[evIdx]
                i  == ev.b
            IN  \A o \in 1 .. Len(Outputs(conf, i)) :
                   IsToggleKey(Outputs(conf, i)[o]) =>
                      IF ev.pressed
                      THEN /\ ToggleOn(key_toggle_state', ToggleKeyId(conf, i, o))
                                = ~ToggleOn(key_toggle_state, ToggleKeyId(conf, i, o))
                           /\ Cardinality(CallsOf(calls', i, o, AllOps)) = 1
                           /\ Cardinality(CallsOf(calls', i, o,
                                 IF ToggleOn(key_toggle_state, ToggleKeyId(conf, i, o))
                                 THEN {"key_up"} ELSE {"key_down"})) = 1
                      ELSE /\ key_toggle_state' = key_toggle_state
                           /\ key_toggle_repeat' = key_toggle_repeat
                           /\ CallsOf(calls', i, o, AllOps) = {}]_vars

\* C11 witness: a toggle key that was switched on and off again, handled by
\* the second press, with its timer removed.
C11_Witness ==
    /\ pc = "dispatch" /\ evIdx > 1 /\ events[evIdx - 1].pressed
    /\ \E o \in 1 .. Len(Outputs(conf, events[evIdx - 1].b)) :
          /\ IsToggleKey(Outputs(conf, events[evIdx - 1].b)[o])
          /\ ToggleKeyId(conf, events[evIdx - 1].b, o) \in DOMAIN key_toggle_state
          /\ ~key_toggle_state[ToggleKeyId(conf, events[evIdx - 1].b, o)]
          /\ ToggleKeyId(conf, events[evIdx - 1].b, o) \notin DOMAIN key_toggle_repeat
          /\ \E k \in 1 .. Len(calls) : calls[k].op = "key_up"

\* Bindings i and j differ in device (GUID or index) or in physical input.
DifferentInput(c, i, j) ==
    \/ Bindings(c)[i].input.device_guid # Bindings(c)[j].input.device_guid
    \/ Bindings(c)[i].input.device_index # Bindings(c)[j].input.device_index
    \/ Bindings(c)[i].input.input_type # Bindings(c)[j].input.input_type
    \/ Bindings(c)[i].input.input_id # Bindings(c)[j].input.input_id

(* C12: handling a press event of a toggle-mode key binding leaves the      *)
(* toggle state and the repeat timer of every toggle-mode key of every      *)
(* binding with a different device or physical input unchanged.             *)
C12_TogglePerInput ==
    [][(HandleStep /\ events[evIdx].pressed
          /\ \E o \in 1 .. Len(Outputs(conf, events[evIdx].b)) :
                IsToggleKey(Outputs(conf, events[evIdx].b)[o])) =>
         \A j \in NB(conf) : DifferentInput(conf, events[evIdx].b, j) =>
            \A o \in 1 .. Len(Outputs(conf, j)) : IsToggleKey(Outputs(conf, j)[o]) =>
               /\ ToggleOn(key_toggle_state', ToggleKeyId(conf, j, o))
                     = ToggleOn(key_toggle_state, ToggleKeyId(conf, j, o))
               /\ (ToggleKeyId(conf, j, o) \in DOMAIN key_toggle_repeat')
                     = (ToggleKeyId(conf, j, o) \in DOMAIN key_toggle_repeat)]_vars

----------------------------------------------------------------------------
(* Continuous axes *)

\* round(), to the nearest integer and to the even one at a tie
RRound(r) ==
    LET f == RFloor(r)
        d == RSub(r, RInt(f))
    IN  IF RLt(d, <<1, 2>>) THEN f
        ELSE IF RLt(<<1, 2>>, d) THEN f + 1
        ELSE IF f % 2 = 0 THEN f ELSE f + 1

BelowDeadzone(c, value) == RLt(Rat(Abs(value), AxisScale), c.axis_deadzone)

(* C13: for an axis key fed the same value, at or beyond the deadzone, in   *)
(* each of N calls of _exec_axis, the steps emitted so far plus the stored  *)
(* remainder equal N * value * speed * dt, and the emitted total is within  *)
(* 1 of round(N * value * speed * dt); every stored remainder has a         *)
(* magnitude below 1.                                                       *)
C13_AxisAccumulation ==
    /\ \A key \in DOMAIN axis_accum :
          RLt(RInt(-1), axis_accum[key]) /\ RLt(axis_accum[key], RInt(1))
    /\ \A key \in DOMAIN axis_hist :
          (axis_hist[key].const /\ axis_hist[key].n >= 1) =>
             /\ ~BelowDeadzone(conf, axis_hist[key].v)
             /\ RAdd(RInt(axis_hist[key].total), axis_accum[key])
                   = RMul(RInt(axis_hist[key].n), AxisDelta(conf, axis_hist[key].v))
             /\ Abs(axis_hist[key].total
                      - RRound(RMul(RInt(axis_hist[key].n),
                                    AxisDelta(conf, axis_hist[key].v)))) <= 1

\* C13 witness: four or more calls with one value have emitted four or more
\* pixels and left a remainder.
C13_Witness ==
    \E key \in DOMAIN axis_hist :
        /\ axis_hist[key].const /\ axis_hist[key].n >= 4
        /\ Abs(axis_hist[key].total) >= 4
        /\ axis_accum[key] # RInt(0)

(* C14: handling an axis event whose absolute value is below the deadzone   *)
(* makes no call and leaves the accumulators and the tracked absolute       *)
(* position unchanged.                                                      *)
C14_DeadzoneNoEffect ==
    [][(HandleStep /\ IsAnalog(Bindings(conf)[events[evIdx].b].input)
          /\ BelowDeadzone(conf, events[evIdx].value)) =>
         /\ calls' = <<>>
         /\ axis_accum' = axis_accum
         /\ abs_pos' = abs_pos]_vars

\* C14 witness: a nonzero value below the deadzone was handled while a
\* remainder was stored.
C14_Witness ==
    /\ pc = "dispatch" /\ evIdx > 1 /\ calls = <<>>
    /\ IsAnalog(Bindings(conf)[events[evIdx - 1].b].input)
    /\ events[evIdx - 1].value # 0
    /\ BelowDeadzone(conf, events[evIdx - 1].value)
    /\ \E key \in DOMAIN axis_accum : axis_accum[key] # RInt(0)

(* C15: in absolute axis mode every position handed to set_position_pixels  *)
(* by handle_event lies within the virtual desktop, the tracked position    *)
(* lies within it, and the last position handed over is the tracked one.    *)
C15_AbsoluteClamped ==
    [][(HandleStep /\ conf.axis_mode # "relative") =>
         /\ abs_pos' # None => abs_pos'[1] \in Desktop(conf)
         /\ \A k \in 1 .. Len(calls') :
               calls'[k].op = "set_position_pixels" =>
                  /\ calls'[k].arg \in Desktop(conf)
                  /\ abs_pos' # None
                  /\ k = Len(calls') => calls'[k].arg = abs_pos'[1]
         /\ (calls' = <<>>) => abs_pos' = abs_pos]_vars

\* C15 witness: the steps emitted for x add up to the width of the desktop or
\* more, and the tracked position handed over is the right edge.
C15_Witness ==
    /\ pc = "dispatch" /\ evIdx > 1 /\ conf.axis_mode # "relative"
    /\ abs_pos # None
    /\ abs_pos[1][1] = conf.desktop.x0 + conf.desktop.w - 1
    /\ \E k \in 1 .. Len(calls) :
          calls[k].op = "set_position_pixels" /\ calls[k].arg[1] = abs_pos[1][1]
    /\ \E key \in DOMAIN axis_hist :
          key[4] = "x" /\ axis_hist[key].const /\ axis_hist[key].total >= conf.desktop.w

----------------------------------------------------------------------------
(* The main loop *)

(* C16: when run_main goes to sleep, the iteration has made exactly one     *)
(* poll, then one handle_event for each event the poll returned, in the     *)
(* order of the list, then one update, also when the poll returned no       *)
(* event; the modifier value sampled by the poll is the one every binding   *)
(* of the tick was evaluated with.                                          *)
C16_IterationOrder ==
    /\ pc = "sleep" =>
          iter_log = <<LoopCall("poll", 0)>>
                       \o [k \in 1 .. Len(events) |-> LoopCall("handle_event", k)]
                       \o <<LoopCall("update", 0)>>
    /\ pc = "dispatch" =>
          /\ iter_log = <<LoopCall("poll", 0)>>
                          \o [k \in 1 .. (evIdx - 1) |-> LoopCall("handle_event", k)]
          /\ mod_on = ModifierActive(conf, btn, axis)
          /\ last_mod_on = Some(mod_on)
          /\ \A i \in NB(conf) : computed[i] = Computed(conf, i, mod_on, btn, axis)
    /\ pc = "poll" => iter_log = <<>>

\* C16 witness: an iteration that handled two events of different bindings, at
\* the sleep.
C16_Witness ==
    /\ pc = "sleep"
    /\ Len(events) = 2
    /\ events[1].b # events[2].b
    /\ Len(iter_log) = 4

\* An iteration whose poll returned no event, at the sleep (reachable too).
C16_IdleIteration ==
    /\ pc = "sleep" /\ events = <<>>
    /\ iter_log = <<LoopCall("poll", 0), LoopCall("update", 0)>>

----------------------------------------------------------------------------
(* C17: bindings whose device is not attached *)

\* The binding never resolves at poll time (self.devices is fixed at load).
NeverResolves(i) == ResolveDevice(conf, Bindings(conf)[i].input) = None

\* Binding i emitted no event, in this tick or before.
NoEventOf(i) ==
    /\ lastEv[i] = "none"
    /\ presses[i] = 0
    /\ \A k \in 1 .. Len(events) : events[k].b # i

\* After a poll, every binding that resolves, is not layer-gated and has a valid
\* input index had its state computed, wherever unresolved bindings stand in the list.
OthersPolled ==
    pc # "poll" =>
       \A j \in NB(conf) :
          (/\ ~NeverResolves(j)
           /\ ~LayerGated(conf, Bindings(conf)[j].input, mod_on)
           /\ ~PollWarns([conf EXCEPT !.debug_inputs = TRUE], j, mod_on))
          => computed[j] \in {"on", "off", "analog"}

\* C17: a binding whose device is not among the enumerated ones never produces an
\* event and does not stop the other bindings from being polled; it got exactly
\* one warning at load and none while polling; and conversely every binding that
\* never resolves at poll time got the load-time warning.
C17_UnresolvedWarnedAtLoad ==
    /\ OthersPolled
    /\ \A i \in NB(conf) :
          /\ warnings[i].load <= 1
          /\ warnings[i].load = 1 =>
                NeverResolves(i) /\ NoEventOf(i) /\ warnings[i].poll = 0
          /\ NeverResolves(i) => warnings[i].load = 1

\* The part of C17 the code keeps: a binding warned at load never resolves, never
\* emits, is never warned about while polling, and the others are still polled.
C17_WarnedBindingInactive ==
    /\ OthersPolled
    /\ \A i \in NB(conf) :
          /\ warnings[i].load <= 1
          /\ warnings[i].load = 1 =>
                NeverResolves(i) /\ NoEventOf(i) /\ warnings[i].poll = 0
          /\ NeverResolves(i) => NoEventOf(i) /\ warnings[i].poll = 0

\* A tick in which a binding listed after the unattached ones emitted a press,
\* and a resolved binding with an invalid button index was warned about twice.
C17_InactiveReached ==
    /\ \E i \in NB(conf) : warnings[i].load = 1
    /\ \E i, j \in NB(conf) : i < j /\ NeverResolves(i) /\ lastEv[j] = "press"
    /\ \E j \in NB(conf) : warnings[j].poll = MaxWarnings

----------------------------------------------------------------------------
(* C18: an output call that raises *)

\* An exception left handle_event or update and, nothing catching it in run_main,
\* ended the loop.
LoopEnded == pc = "crashed"

\* C18: a failing output action is confined to that action: the remaining events
\* of the tick are still handled, update() still runs and the loop goes on to the
\* next tick, so the loop never ends on an exception and every iteration reaches
\* its sleep with all events handled and update called.
C18_FailureConfined ==
    /\ ~LoopEnded
    /\ pc = "sleep" =>
          /\ evIdx = Len(events) + 1
          /\ iter_log[Len(iter_log)] = LoopCall("update", 0)

\* The loop ended in handle_event of the first of two events: the second event
\* was never handed to handle_event and update was not called.
C18_RaiseEndsLoop ==
    /\ LoopEnded
    /\ Len(events) = 2
    /\ iter_log = <<LoopCall("poll", 0), LoopCall("handle_event", 1)>>

----------------------------------------------------------------------------
(* C19: outputs held at shutdown *)

\* The loop was terminated from outside and the process has ended.
ProcessEnded == pc = "ended"

\* A hold-mode output whose last call was the down.
HeldOutputs == {k \in DOMAIN sent : sent[k] = "down"}

\* The toggle-mode keys that are on (down).
ToggledOnKeys == {k \in DOMAIN key_toggle_state : key_toggle_state[k]}

\* C19: when the loop is terminated while a hold-mode key or button, or a
\* toggled-on key, is down, the matching up is sent before the process ends: in
\* an ended process no output is held.
C19_ReleasedOnShutdown ==
    ProcessEnded => HeldOutputs = {} /\ ToggledOnKeys = {}

\* The process ended while a hold-mode key was down.
C19_EndedWithHeldKey == ProcessEnded /\ HeldOutputs # {}

\* The process ended while a toggle-mode key was on.
C19_EndedWithToggledKey == ProcessEnded /\ ToggledOnKeys # {}

----------------------------------------------------------------------------
(* C20: the active / inactive toggle of DCSMouseController.main *)

\* The recentred base of each configuration, worked out by hand from its cfg:
\* "restore": (0 + 1, 0 + 0) lies on the monitor; "plain": (5, 1) clamped to the
\* virtual desktop's last column; "window": the centre of the client rect when
\* the window was found, else (0, 0) on the monitor.
ExpectedBase(rect) ==
    CASE t_cfg = TogConf("restore") -> <<1, 0>>
      [] t_cfg = TogConf("plain")   -> <<3, 1>>
      [] t_cfg = TogConf("window")  -> IF rect # None THEN <<2, 1>> ELSE <<0, 0>>

\* C20: the controller is either active or inactive.  A toggle press accepted
\* while inactive sets active, saves the cursor position and puts the cursor on
\* the recentred base target (no wiggle offset); a press accepted while active
\* clears active and, with restore_on_off, puts the cursor back on the position
\* saved at toggle-on (else leaves it); a step that accepts no press changes
\* neither active nor the saved position; toggle_on in the active state and
\* toggle_off in the inactive state return the state unchanged.
C20_ToggleTwoStates ==
    [][/\ active \in BOOLEAN /\ active' \in BOOLEAN
       /\ accepted' \in {0, 1}
       /\ (accepted' = 1 /\ ~active) =>
             /\ active'
             /\ saved_cursor' = Some(os_cursor)
             /\ base' = ExpectedBase(active_winrect')
             /\ target' = base'
             /\ os_cursor' = base'
       /\ (accepted' = 1 /\ active) =>
             /\ ~active'
             /\ saved_cursor' = saved_cursor
             /\ os_cursor' = IF t_cfg.restore_on_off THEN saved_cursor[1] ELSE os_cursor
       /\ accepted' = 0 => active' = active /\ saved_cursor' = saved_cursor
       /\ active =>
             \A rect \in RectsFound(t_cfg) :
                toggle_on(t_cfg, TogRecord, rect, now) = TogRecord
       /\ ~active => toggle_off(t_cfg, TogRecord, now) = TogRecord
      ]_vars

\* A press was just accepted while active with restore_on_off: the controller is
\* inactive and the cursor is back on the saved position, away from the base,
\* after the user had moved the mouse and the target had been nudged.
C20_Witness ==
    /\ accepted = 1
    /\ ~active
    /\ t_cfg.restore_on_off
    /\ saved_cursor = Some(os_cursor)
    /\ os_cursor # base
    /\ target # base

\* A press was just accepted while inactive, late in the run: the controller is
\* active with the cursor on the base.
C20_ActivatedAgain ==
    /\ accepted = 1
    /\ active
    /\ os_cursor = base
    /\ now >= 3 * DebounceMs

----------------------------------------------------------------------------
(* C21: the modifier layer of DCSMouseController *)

\* Button binding i of "mouse_left" is physically held and active for the
\* modifier state of the iteration.
HeldAndActive(i) ==
    /\ m_btn[m_cfg.mouse_left[i].btn]
    /\ binding_active(m_cfg.mouse_left[i], modifier_is_down(m_cfg, m_mod))

\* The axis binding of "wheel_up" is active and its axis is read as pressed.
AxisHeldAndActive ==
    /\ binding_active(m_cfg.wheel_up, modifier_is_down(m_cfg, m_mod))
    /\ m_res # None /\ m_res[1][1]

\* C21: at the end of every iteration an action's hold state is asserted only if
\* one of its bindings is physically held and active for the current modifier
\* state (M bindings while the modifier is down, unmarked ones while it is up,
\* M bindings never when no modifier is configured).
C21_OnlyActiveBindingsHold ==
    pc = "h_events" =>
       /\ hold_asserted.mouse_left => \E i \in 1 .. Len(m_cfg.mouse_left) : HeldAndActive(i)
       /\ hold_asserted.wheel_up => AxisHeldAndActive

\* The part of C21 the axis-threshold path keeps, and the "no modifier" case.
C21_AxisPathGated ==
    pc = "h_events" =>
       /\ hold_asserted.wheel_up => AxisHeldAndActive
       /\ m_cfg.modifier_button = None =>
             \A i \in 1 .. Len(m_cfg.mouse_left) :
                m_cfg.mouse_left[i].req_mod => ~btn_hold_state[i]

\* "mouse_left" is asserted although no button is physically down.
C21_StuckHold ==
    /\ pc = "h_events"
    /\ hold_asserted.mouse_left
    /\ \A k \in HoldButtons : ~m_btn[k]

----------------------------------------------------------------------------
(* C22: base-layer axis bindings while the modifier is held *)

\* Binding i is a base-layer axis binding whose physical axis has no modified
\* binding.
BaseAxisAlone(i) ==
    /\ Bindings(conf)[i].input.input_type = "axis"
    /\ ~Bindings(conf)[i].input.modifier_layer
    /\ ~IndexHasMod(conf, Bindings(conf)[i].input)

----------------------------------------------------------------------------
(* C23: edge state per full binding identity *)

\* Bindings i and j read the same device and input but differ in axis_mode,
\* threshold or layer.
SameInputDifferentIdentity(i, j) ==
    /\ i # j
    /\ KeyForBinding(Bindings(conf)[i].input) = KeyForBinding(Bindings(conf)[j].input)
    /\ Bindings(conf)[i].input # Bindings(conf)[j].input

\* C23: the edge state of a digital binding is its own: a poll emits an event
\* for binding i exactly when the state computed for i differs from the state of
\* i's own last event (released before any event), and the event carries that
\* state, whatever the bindings sharing its device and input do in the same or
\* in earlier polls.
C23_IndependentEdges ==
    [][PollStep =>
         \A i \in NB(conf) : IsDigital(conf, i) =>
            /\ computed'[i] = "skip" => EventsOf(i)' = {}
            /\ computed'[i] \in {"on", "off"} =>
                  /\ (EventsOf(i)' # {}) <=>
                        ((computed'[i] = "on") # (lastEv[i] = "press"))
                  /\ \A k \in EventsOf(i)' : events'[k].pressed = (computed'[i] = "on")
      ]_vars

\* Two bindings on the same axis that differ only in threshold: the one with the
\* higher threshold has just released while the other stays pressed and silent.
C23_Witness ==
    /\ conf = Conf("edges")
    /\ pc = "dispatch"
    /\ SameInputDifferentIdentity(1, 2)
    /\ lastEv[1] = "press" /\ EventsOf(1) = {}
    /\ lastEv[2] = "release" /\ EventsOf(2) # {}

----------------------------------------------------------------------------
(* C24: the modifier evaluated like an ordinary binding *)

\* C24: in every poll the modifier state equals the pressed state poll computes
\* for an ordinary binding with the modifier's device, input type, input id, axis
\* mode and threshold: while the modifier is on, its twin in the modified layer
\* is computed pressed; while it is off, its twin in the base layer is computed
\* released.
C24_ModifierLikeBinding ==
    last_mod_on # None =>
       /\ mod_on => computed[2] = "on"
       /\ ~mod_on => computed[1] = "off"

\* The modifier bindings for which the two evaluations agree: a button, or an
\* axis with a direction and a threshold other than 0.
C24_AgreesWithModeAndThreshold ==
    (/\ last_mod_on # None
     /\ \/ conf.modifier[1].input_type = "button"
        \/ conf.modifier[1].axis_mode # "" /\ conf.modifier[1].threshold # Some(0))
    => /\ mod_on => computed[2] = "on"
       /\ ~mod_on => computed[1] = "off"

\* An axis modifier with threshold 0 is on at a quarter deflection.
C24_ThresholdZeroOn ==
    /\ conf.modifier = Some(AxisButton(0, "pos", 0, FALSE))
    /\ pc = "dispatch"
    /\ axis[0][0] = 1
    /\ mod_on

\* A value exactly on the threshold 0.75: modifier off, base twin released.
C24_OnThresholdOff ==
    /\ conf.modifier = Some(AxisButton(0, "abs", 3, FALSE))
    /\ pc = "dispatch"
    /\ axis[0][0] = -3
    /\ ~mod_on /\ computed[1] = "off"

----------------------------------------------------------------------------
(* Wiggle *)

WiggleBinding(i) ==
    \E o \in 1 .. Len(Outputs(conf, i)) : Outputs(conf, i)[o].type = "mouse_wiggle"

HandledEvent == events[NextEvent(events, evIdx)]

\* A step of handle_event for a press of a binding with one wiggle action.
WigglePress ==
    /\ pc = "dispatch" /\ pc' = "dispatch" /\ evIdx' = evIdx + 1
    /\ WiggleBinding(HandledEvent.b) /\ HandledEvent.pressed

\* A call of update() that returned.
UpdateReturned == pc = "dispatch" /\ pc' = "sleep"

WiggleCalls(cs) ==
    {k \in 1 .. Len(cs) : cs[k].op \in {"move_relative", "set_position_pixels"}}

(* C25, as the spec states it: each press of a wiggle action flips           *)
(* wiggle_active; while wiggle is off update() makes no wiggle movement;      *)
(* while it is on two successive movements are at least wiggle_ms apart and   *)
(* of opposite sign, and the displacement summed over the movements since     *)
(* the wiggle was switched on never exceeds one amplitude.                    *)
C25_WiggleAlternates ==
    [][ /\ (WigglePress => wiggle_active' = ~wiggle_active)
        /\ (UpdateReturned /\ ~wiggle_active => WiggleCalls(calls') = {})
        /\ (UpdateReturned /\ wiggle_moves'.prev # None
              /\ wiggle_moves' # wiggle_moves =>
               /\ wiggle_moves'.last[1].t - wiggle_moves'.prev[1].t >= wiggle_ms
               /\ wiggle_moves'.last[1].dx = -wiggle_moves'.prev[1].dx)
        /\ (UpdateReturned =>
               /\ wiggle_moves'.total <= wiggle_px
               /\ -wiggle_moves'.total <= wiggle_px) ]_vars

(* C25, the parts that hold on the code: a press flips wiggle_active, no      *)
(* movement is made while wiggle is off, and successive movements are at      *)
(* least wiggle_ms apart, each of size wiggle_px.                             *)
C25_FlipSpacingAmplitude ==
    [][ /\ (WigglePress => wiggle_active' = ~wiggle_active)
        /\ (UpdateReturned /\ ~wiggle_active => WiggleCalls(calls') = {})
        /\ (UpdateReturned /\ wiggle_moves'.prev # None
              /\ wiggle_moves' # wiggle_moves =>
               /\ wiggle_moves'.last[1].t - wiggle_moves'.prev[1].t >= wiggle_ms
               /\ wiggle_moves'.last[1].dx \in {wiggle_px, -wiggle_px}) ]_vars

\* Two successive movements of one on period have the same sign.
C25_SameSignTwice ==
    /\ wiggle_active
    /\ wiggle_moves.prev # None
    /\ wiggle_moves.last[1].dx = wiggle_moves.prev[1].dx

\* The displacement since switching on exceeds one amplitude.
C25_Drifted ==
    wiggle_active /\ (wiggle_moves.total > wiggle_px \/ -wiggle_moves.total > wiggle_px)

----------------------------------------------------------------------------
(* Continuous axes *)

\* Binding i is a continuous axis that this tick's poll reaches: not skipped by
\* the layer gating, its device resolved, its axis id one the device has.
LiveAnalog(c, i, modOn) ==
    LET ib == Bindings(c)[i].input
        js == ResolveDevice(c, ib)
    IN  /\ IsAnalog(ib)
        /\ ~LayerGated(c, ib, modOn)
        /\ js # None
        /\ ib.input_id >= 0 /\ ib.input_id < js[1].na

EventsOfBinding(evs, i) == {k \in 1 .. Len(evs) : evs[k].b = i}

RawValue(c, i, a) ==
    a[ResolveDevice(c, Bindings(c)[i].input)[1].idx][Bindings(c)[i].input.input_id]

(* C26: a continuous axis binding that is live in a tick gets exactly one    *)
(* event from that tick's poll, carrying the raw axis value whether or not   *)
(* the value is the one of the previous tick, and a continuous axis binding  *)
(* is never a key of the edge cache.                                         *)
C26_ContinuousAxisEveryTick ==
    /\ \A i \in NB(conf) : IsAnalog(Bindings(conf)[i].input) =>
            Bindings(conf)[i].input \notin DOMAIN state_cache
    /\ pc = "dispatch" =>
          \A i \in NB(conf) : LiveAnalog(conf, i, mod_on) =>
             /\ Cardinality(EventsOfBinding(events, i)) = 1
             /\ \A k \in EventsOfBinding(events, i) :
                   events[k].pressed /\ events[k].value = RawValue(conf, i, axis)

\* A live continuous axis has been handled twice or more with one and the same
\* value, and the current tick has emitted its event again.
C26_Witness ==
    /\ pc = "dispatch"
    /\ \E i \in NB(conf) :
          /\ LiveAnalog(conf, i, mod_on)
          /\ EventsOfBinding(events, i) # {}
          /\ \E key \in DOMAIN axis_hist :
                /\ axis_hist[key].const /\ axis_hist[key].n >= 2
                /\ axis_hist[key].v = RawValue(conf, i, axis)

----------------------------------------------------------------------------
(* Loading the binding expressions *)

Loaded == pc \notin {"load", "load_failed"}

Entries == ini.key_mappings

\* The text writes an axis threshold, and it is outside [0,1].
ThresholdOutOfRange(parts) ==
    /\ Len(parts) >= 6
    /\ parts[3] = T("axis")
    /\ IsFloat(parts[6])
    /\ (FloatOf(parts[6]) < 0 \/ FloatOf(parts[6]) > AxisScale)

\* Binding i was evaluated as an axis-as-button in the last poll.
EvaluatedAxisButton(i) ==
    /\ Bindings(conf)[i].input.input_type = "axis"
    /\ computed[i] \in {"on", "off"}

(* C27: once the load is over, a file with a binding whose axis threshold is *)
(* outside [0,1] has failed to load, and no binding the detector evaluates   *)
(* has a threshold outside [0,1].                                            *)
C27_OutOfRangeThresholdFatal ==
    /\ pc # "load" =>
          \A k \in 1 .. Len(Entries) :
              ThresholdOutOfRange(Entries[k].lhs) => pc = "load_failed"
    /\ \A i \in NB(conf) :
          EvaluatedAxisButton(i) /\ Bindings(conf)[i].input.threshold # None =>
              /\ Bindings(conf)[i].input.threshold[1] >= 0
              /\ Bindings(conf)[i].input.threshold[1] <= AxisScale

\* A binding with threshold 1.5 or -0.5 was loaded and the detector has
\* computed a state for it.
C27_OutOfRangeEvaluated ==
    /\ pc = "dispatch"
    /\ \E i \in NB(conf) :
          /\ EvaluatedAxisButton(i)
          /\ Bindings(conf)[i].input.threshold # None
          /\ (Bindings(conf)[i].input.threshold[1] < 0
                \/ Bindings(conf)[i].input.threshold[1] > AxisScale)

\* The last token of the text is the letter m or M, or ends with it.
HasMarker(parts) == parts[Len(parts)].mark \in {"M", "m"}

\* The bindings of the loaded configuration that come from the text parts.
BindingsOf(parts) ==
    {i \in NB(conf) : parse_input(parts).ok
                        /\ Bindings(conf)[i].input = parse_input(parts).val}

(* C28: a binding expression with a trailing modifier marker, as a suffix of  *)
(* the last token or as a last token of its own, in upper or lower case, is   *)
(* parsed with modifier_layer = true, and no such expression is loaded as a   *)
(* base-layer binding.                                                        *)
C28_MarkerSetsModifierLayer ==
    pc # "load" =>
       \A k \in 1 .. Len(Entries) : HasMarker(Entries[k].lhs) =>
          /\ parse_input(Entries[k].lhs).ok
          /\ parse_input(Entries[k].lhs).val.modifier_layer
          /\ Loaded => \A i \in BindingsOf(Entries[k].lhs) :
                          Bindings(conf)[i].input.modifier_layer

(* C28, what the code does: only the last token "M" of its own, in upper      *)
(* case, sets modifier_layer.                                                 *)
C28_OnlyUpperCaseToken ==
    Loaded =>
       \A k \in 1 .. Len(Entries) : \A i \in BindingsOf(Entries[k].lhs) :
           Bindings(conf)[i].input.modifier_layer
              <=> Entries[k].lhs[Len(Entries[k].lhs)] = Tok("", "M")

\* An expression with a marker was loaded as a base-layer binding and the
\* detector has polled it with the modifier up.
C28_MarkerLoadedAsBase ==
    /\ pc = "dispatch"
    /\ \E k \in 1 .. Len(Entries) :
          /\ HasMarker(Entries[k].lhs)
          /\ \E i \in BindingsOf(Entries[k].lhs) :
                ~Bindings(conf)[i].input.modifier_layer /\ computed[i] # "skip"

\* An expression with the marker as a suffix made the load fail.
C28_SuffixRejected ==
    /\ pc = "load_failed"
    /\ ini.modifier = None
    /\ \E k \in 1 .. Len(Entries) :
          HasMarker(Entries[k].lhs) /\ Entries[k].lhs[Len(Entries[k].lhs)].core # ""

\* The text is a button expression with the number n written in it.
WritesButton(parts, n) ==
    /\ Len(parts) >= 4
    /\ parts[3] = T("button")
    /\ IsInt(parts[4]) /\ IntOf(parts[4]) = n

ButtonNumbers == -1 .. 3

\* get_button(k) of device 0 in the last poll
ButtonDown(k) == k \in DOMAIN btn[0] /\ btn[0][k]

(* C29: a button written with the 1-based number n >= 1 is stored with       *)
(* input_id n-1, for a binding and for the modifier, and the detector's       *)
(* state for it is that of button index n-1; a file that writes a button      *)
(* number <= 0 fails to load.                                                 *)
C29_ButtonNumberConvertedOnce ==
    /\ pc # "load" =>
         \A n \in ButtonNumbers : n <= 0 =>
            /\ \A k \in 1 .. Len(Entries) :
                   WritesButton(Entries[k].lhs, n) => pc = "load_failed"
            /\ ini.modifier # None /\ WritesButton(ini.modifier[1], n)
                   => pc = "load_failed"
    /\ Loaded =>
         \A n \in ButtonNumbers : n >= 1 =>
            /\ \A k \in 1 .. Len(Entries) : WritesButton(Entries[k].lhs, n) =>
                  \E i \in NB(conf) :
                     /\ Bindings(conf)[i].input.input_type = "button"
                     /\ Bindings(conf)[i].input.input_id = n - 1
                     /\ computed[i] # "skip" =>
                           (computed[i] = "on" <=> ButtonDown(n - 1))
            /\ ini.modifier # None /\ WritesButton(ini.modifier[1], n) =>
                  /\ conf.modifier[1].input_id = n - 1
                  /\ pc = "dispatch" => (mod_on <=> ButtonDown(n - 1))

\* The modifier written as button 2 is on and a binding written as button 1
\* with the marker is pressed: the detector has read indices 1 and 0.
C29_Witness ==
    /\ pc = "dispatch"
    /\ ini.modifier # None /\ WritesButton(ini.modifier[1], 2)
    /\ mod_on
    /\ \E k \in 1 .. Len(Entries) :
          /\ WritesButton(Entries[k].lhs, 1)
          /\ \E i \in BindingsOf(Entries[k].lhs) : computed[i] = "on"

----------------------------------------------------------------------------
(* Autorepeat of toggle keys *)

\* update() tapped the toggle key k in this step.
TappedByUpdate(k) ==
    /\ UpdateReturned
    /\ k \in DOMAIN tap_hist'
    /\ tap_hist'[k].call = Some(now)

(* C30, as the spec states it: update() taps a toggle key that is on at most *)
(* once per call, and only when at least 50 ms have passed since the key's  *)
(* previous tap, or since it was switched on; a toggle key that is off is    *)
(* not tapped.                                                               *)
C30_TapsFiftyMsApart ==
    [][UpdateReturned =>
         \A k \in DOMAIN tap_hist' :
            /\ TappedByUpdate(k) =>
                  /\ tap_hist'[k].n = 1
                  /\ tap_hist'[k].gap[1] >= ToggleRepeatMs
            /\ ~ToggleOn(key_toggle_state, k) => tap_hist'[k] = tap_hist[k]]_vars

(* C30, amended: update() taps a toggle key that is on at most once per      *)
(* call, and only when the clock it reads at its start is at least 50 ms     *)
(* past the clock value held for the key, which is the one read by the       *)
(* update() call that last tapped it or the time it was switched on; a       *)
(* toggle key that is off is not tapped.                                     *)
C30_TapsFiftyMsOnUpdateClock ==
    [][UpdateReturned =>
         \A k \in DOMAIN tap_hist' :
            /\ TappedByUpdate(k) =>
                  /\ tap_hist'[k].n = 1
                  /\ tap_hist'[k].agap[1] >= ToggleRepeatMs
            /\ ~ToggleOn(key_toggle_state, k) => tap_hist'[k] = tap_hist[k]]_vars

\* A toggle key was tapped by update() and then switched off, and a later
\* call of update() has tapped another toggle key and not this one.
C30_Witness ==
    /\ pc = "sleep"
    /\ \E k \in DOMAIN tap_hist :
          /\ ~ToggleOn(key_toggle_state, k)
          /\ tap_hist[k].call # None
          /\ \E j \in DOMAIN tap_hist :
                /\ j # k /\ tap_hist[j].call # None
                /\ tap_hist[j].call[1] > tap_hist[k].call[1]

\* A toggle key tapped less than 50 ms after its previous tap.
C30_TappedEarly ==
    \E k \in DOMAIN tap_hist :
        tap_hist[k].call # None /\ tap_hist[k].gap[1] < ToggleRepeatMs

----------------------------------------------------------------------------
(* Releases *)

\* The bindings of the configuration "holds".
LiveBindings == 1 .. 2

\* The physical input of button binding i was up in the last sample.
InputUp(i) ==
    /\ 0 \in DOMAIN btn
    /\ ~btn[0][Bindings(conf)[i].input.input_id]

HeldDown(i) == sent[<<i, 1>>] = "down"

(* C31: a binding whose last event is a press and whose physical input is    *)
(* up gets a release event (or its input is pressed again), whatever the     *)
(* modifier does, as long as the loop keeps ticking; and a hold-mode key     *)
(* that is down while its input is up is eventually sent up (or its input    *)
(* is pressed again).                                                        *)
C31_ReleaseFollows ==
    \A i \in LiveBindings :
       /\ (lastEv[i] = "press" /\ InputUp(i)) ~> (lastEv[i] = "release" \/ ~InputUp(i))
       /\ (HeldDown(i) /\ InputUp(i)) ~> (~HeldDown(i) \/ ~InputUp(i))

(* C31, what the code gives: a binding that a poll reaches (its layer is the *)
(* one the modifier selects) with its input up does not stay pressed.        *)
C31_ReleasedWhenPolled ==
    \A i \in NB(conf) :
        (pc = "dispatch" /\ computed[i] # "skip" /\ InputUp(i)) => lastEv[i] # "press"

\* The key of the base binding is down, its button is up, and the modifier is
\* held: the binding is skipped by every poll.
C31_StuckDown ==
    /\ pc = "sleep"
    /\ HeldDown(1) /\ InputUp(1) /\ mod_on
    /\ now >= MaxTimeLive

----------------------------------------------------------------------------
(* Ramp entries of overlapping bindings *)

IsRamped(out) == out.type \in {"mouse_wheel", "mouse_increment"}

\* The executor holds a ramp entry under the key of output o of binding i.
HasRampEntry(ws, is, c, i, o) ==
    IF Outputs(c, i)[o].type = "mouse_wheel"
    THEN WheelKey(Bindings(c)[i].input, Outputs(c, i)[o]) \in DOMAIN ws
    ELSE IncKey(Bindings(c)[i].input, Outputs(c, i)[o]) \in DOMAIN is

RampOutputs(c, i) == {o \in 1 .. Len(Outputs(c, i)) : IsRamped(Outputs(c, i)[o])}

(* C32: after handle_event has handled an event of a binding, a ramp entry  *)
(* exists for each wheel or increment output of that binding exactly when   *)
(* the event was a press, and the entries of the wheel and increment        *)
(* outputs of every other binding exist exactly as before.                  *)
C32_RampEntryPerBinding ==
    [][HandleStep =>
         /\ \A o \in RampOutputs(conf, HandledEvent.b) :
               HasRampEntry(wheel_state', increment_state', conf, HandledEvent.b, o)
                  <=> HandledEvent.pressed
         /\ \A j \in NB(conf) : j # HandledEvent.b =>
               \A o \in RampOutputs(conf, j) :
                  HasRampEntry(wheel_state', increment_state', conf, j, o)
                     <=> HasRampEntry(wheel_state, increment_state, conf, j, o)]_vars

(* C32, the part that holds on the code: the entry under the key of the     *)
(* handled binding's output exists exactly when the event was a press.      *)
C32_OwnEntryFollowsEvent ==
    [][HandleStep =>
         \A o \in RampOutputs(conf, HandledEvent.b) :
            HasRampEntry(wheel_state', increment_state', conf, HandledEvent.b, o)
               <=> HandledEvent.pressed]_vars

\* The binding with the lower threshold is still pressed, its axis is still
\* beyond its threshold, and the release of the other binding has removed the
\* ramp entry.
C32_EntryLostWhilePressed ==
    /\ conf = Conf("thresholds")
    /\ pc = "sleep"
    /\ lastEv[1] = "press" /\ lastEv[2] = "release"
    /\ AxisButtonState(Bindings(conf)[1].input, axis[0][0])
    /\ ~HasRampEntry(wheel_state, increment_state, conf, 1, 1)

IsSingleWheel(out) == out.type = "mouse_wheel" /\ out.mode = "single"

(* C34: for a Wheel action in single mode, handle_event makes exactly one   *)
(* wheel call for a press event and none for a release event, and update()  *)
(* makes no wheel call for it.                                              *)
C34_SingleWheelOneTick ==
    [][/\ HandleStep =>
            \A o \in 1 .. Len(Outputs(conf, HandledEvent.b)) :
               IsSingleWheel(Outputs(conf, HandledEvent.b)[o]) =>
                  Cardinality(CallsOf(calls', HandledEvent.b, o, {"wheel"}))
                     = IF HandledEvent.pressed THEN 1 ELSE 0
       /\ UpdateReturned =>
            \A i \in NB(conf) : \A o \in 1 .. Len(Outputs(conf, i)) :
               IsSingleWheel(Outputs(conf, i)[o]) =>
                  CallsOf(calls', i, o, {"wheel"}) = {}]_vars

\* update() has made wheel calls for a Wheel action in single mode whose
\* button is held.
C34_SingleWheelRepeats ==
    /\ pc = "sleep"
    /\ \E i \in NB(conf) : \E o \in 1 .. Len(Outputs(conf, i)) :
          /\ IsSingleWheel(Outputs(conf, i)[o])
          /\ CallsOf(calls, i, o, {"wheel"}) # {}

----------------------------------------------------------------------------
(* BindingMaps with one input identity *)

\* Another BindingMap of the detector's list has the input identity of i.
HasTwin(c, i) ==
    \E j \in NB(c) : j # i /\ Bindings(c)[j].input = Bindings(c)[i].input

\* The poll has found the input of binding i in the other state than the
\* poll before it (an input never polled counts as released).
Transition(i) ==
    /\ computed'[i] \in {"on", "off"}
    /\ (computed'[i] = "on") # (computed[i] = "on")

(* C33: when two BindingMaps of the detector's list have the same input     *)
(* identity, a poll that finds the input pressed or released anew returns   *)
(* an event of that kind for each of them.                                  *)
C33_EachTwinGetsEvent ==
    [][PollStep =>
         \A i \in NB(conf) : (HasTwin(conf, i) /\ Transition(i)) =>
            \E k \in 1 .. Len(events') :
               /\ events'[k].b = i
               /\ events'[k].pressed = (computed'[i] = "on")]_vars

(* C33, the part that holds on the code: the first BindingMap of the list   *)
(* with a given input identity receives the event of every transition.      *)
C33_FirstTwinGetsEvent ==
    [][PollStep =>
         \A i \in NB(conf) :
            (/\ Transition(i)
             /\ \A j \in NB(conf) :
                   Bindings(conf)[j].input = Bindings(conf)[i].input => i <= j) =>
            \E k \in 1 .. Len(events') :
               /\ events'[k].b = i
               /\ events'[k].pressed = (computed'[i] = "on")]_vars

\* The button is down, the first BindingMap has had its press and the second
\* one, with the same input, has never had an event.
C33_TwinWithoutEvent ==
    /\ conf = Conf("twolists")
    /\ pc = "sleep"
    /\ computed[1] = "on" /\ computed[2] = "on"
    /\ lastEv[1] = "press" /\ lastEv[2] = "none"

----------------------------------------------------------------------------
(* DCSMouseController.py: mouse buttons follow the holds *)

\* The iteration has just reached the end of "MOUSE BUTTONS".
ReconcileStep == pc = "h_poll" /\ pc' = "h_events"

\* The OR of the hold states of the bindings of mouse_<side>: btn_hold_state of
\* its button bindings and axbtn_prev of its axis-threshold binding.
HoldOr(hs, prev, c, side) ==
    \/ side = "left" /\ \E i \in 1 .. Len(c.mouse_left) : hs[i]
    \/ DictGet(prev, <<IF side = "left" THEN "mouse_left" ELSE "mouse_right", 0>>, FALSE)

SentFor(out, side) == {k \in 1 .. Len(out) : out[k].side = side}

(* C35: after every loop iteration the state last sent for the left and the *)
(* right mouse button is the OR of the hold states of that action's button  *)
(* and axis-threshold bindings; an event is sent for a side only in an      *)
(* iteration where this value changes, and then one event; per side a DOWN  *)
(* follows no event or an UP, and an UP follows a DOWN.                     *)
C35_MouseFollowsHolds ==
    [][ReconcileStep =>
         \A side \in Sides :
            /\ mouse_state'[side] = HoldOr(btn_hold_state', axbtn_prev', m_cfg, side)
            /\ Cardinality(SentFor(mouse_sent', side))
                  = IF mouse_state'[side] # mouse_state[side] THEN 1 ELSE 0
            /\ \A k \in SentFor(mouse_sent', side) :
                  /\ mouse_sent'[k].down = mouse_state'[side]
                  /\ mouse_sent'[k].down <=> mouse_last[side] \in {"none", "up"}
            /\ (mouse_last'[side] = "down") <=> mouse_state'[side]]_vars

\* One iteration has sent both buttons down: the left one for a held binding
\* of mouse_left, the right one for its axis threshold.
C35_Witness ==
    /\ pc = "h_events"
    /\ mouse_last["left"] = "down" /\ mouse_state["left"]
    /\ \E k \in 1 .. Len(mouse_sent) : mouse_sent[k] = MouseEvent("right", TRUE)
    /\ \E k \in 1 .. Len(mouse_sent) : mouse_sent[k] = MouseEvent("left", TRUE)
    /\ mouse_last["right"] = "down"

----------------------------------------------------------------------------
(* DCSMouseController.py: the nudge multiplier of a held direction *)

\* How long direction key has been held, by its timer.
HeldFor(key) == now - hold_started_at[key][1]

\* The multipliers of the last iteration as a function of the time held: 1,
\* the line from 1 to hold_accel_max, hold_accel_max.
MultiplierShape ==
    \A key \in Dirs :
       /\ ~m_cfg.hold_accel_enable => accel_mult[key] = RInt(1)
       /\ hold_started_at[key] = None => accel_mult[key] = RInt(1)
       /\ (m_cfg.hold_accel_enable /\ hold_started_at[key] # None) =>
            /\ HeldFor(key) <= m_cfg.hold_accel_after_ms => accel_mult[key] = RInt(1)
            /\ (/\ HeldFor(key) > m_cfg.hold_accel_after_ms
                /\ HeldFor(key) < m_cfg.hold_accel_after_ms + m_cfg.hold_accel_ramp_ms) =>
                  RMul(RSub(accel_mult[key], RInt(1)), RInt(m_cfg.hold_accel_ramp_ms))
                     = RMul(RSub(m_cfg.hold_accel_max, RInt(1)),
                            RInt(HeldFor(key) - m_cfg.hold_accel_after_ms))
            /\ (/\ HeldFor(key) > m_cfg.hold_accel_after_ms
                /\ HeldFor(key) >= m_cfg.hold_accel_after_ms + m_cfg.hold_accel_ramp_ms) =>
                  accel_mult[key] = m_cfg.hold_accel_max

(* C36: with hold_accel_enable the multiplier of a direction is 1 while the *)
(* direction is not held or has been held for at most hold_accel_after_ms,  *)
(* lies on the line from 1 to hold_accel_max during the hold_accel_ramp_ms  *)
(* that follow, and is hold_accel_max from then on; with acceleration       *)
(* disabled it is always 1.  A direction that is not held has no timer, a   *)
(* direction held anew gets the time of this iteration as its timer, so     *)
(* that its multiplier is 1 again, and a direction that stays held keeps    *)
(* its timer.                                                               *)
C36_NudgeMultiplier ==
    [][/\ MultiplierShape'
       /\ \A key \in Dirs :
          /\ ~hold_flags'[key] => hold_started_at'[key] = None
          /\ (hold_flags'[key] /\ ~hold_flags[key]) =>
                hold_started_at'[key] = Some(now') /\ accel_mult'[key] = RInt(1)
          /\ (hold_flags'[key] /\ hold_flags[key]) =>
                hold_started_at'[key] = hold_started_at[key]]_vars

\* One direction is on the ramp, strictly between 1 and hold_accel_max, while
\* the other one, released and held anew in this iteration, is at 1.
C36_Witness ==
    /\ m_cfg.hold_accel_enable
    /\ hold_started_at["inc_x"] # None /\ hold_started_at["dec_x"] = Some(now)
    /\ RLt(RInt(1), accel_mult["inc_x"])
    /\ RLt(accel_mult["inc_x"], m_cfg.hold_accel_max)
    /\ accel_mult["dec_x"] = RInt(1)
    /\ now >= 600

\* A direction has been held beyond the ramp and is at hold_accel_max.
C36_AtMax ==
    /\ m_cfg.hold_accel_enable /\ m_cfg.hold_accel_ramp_ms = 400
    /\ hold_started_at["inc_x"] # None
    /\ HeldFor("inc_x") > m_cfg.hold_accel_after_ms + m_cfg.hold_accel_ramp_ms
    /\ accel_mult["inc_x"] = m_cfg.hold_accel_max

----------------------------------------------------------------------------
(* DCSMouseController.py: one toggle per iteration, debounced *)

\* The button event processing, or the axis polling of "toggle", has just run.
TogButtonStep == pc = "t_events" /\ pc' = "t_axbtn"
TogAxisStep   == pc = "t_axbtn" /\ pc' = "t_move"

\* Nothing of what toggle_on and toggle_off write has changed in this step.
NothingToggled ==
    /\ active' = active
    /\ os_cursor' = os_cursor
    /\ saved_cursor' = saved_cursor
    /\ last_toggle' = last_toggle

(* C37: the button event processing and the axis polling of one loop        *)
(* iteration perform at most one toggle_on / toggle_off together, and a     *)
(* toggle is performed only when the clock is at least 150 ms beyond the    *)
(* last accepted toggle: otherwise nothing changes.                         *)
C37_OneToggleDebounced ==
    [][/\ TogButtonStep => accepted' <= 1
       /\ TogAxisStep => accepted + accepted' <= 1
       /\ (TogButtonStep \/ TogAxisStep) =>
             IF accepted' = 0 THEN NothingToggled
             ELSE last_toggle' - last_toggle >= DebounceMs]_vars

(* C37, the part that holds on the code: each of the two passes performs at *)
(* most one toggle, and a toggle is performed only when the clock read for  *)
(* it is at least 150 ms beyond last_toggle.                                *)
C37_OneTogglePerPass ==
    [][(TogButtonStep \/ TogAxisStep) =>
          /\ accepted' <= 1
          /\ IF accepted' = 0 THEN NothingToggled
             ELSE last_toggle' - last_toggle >= DebounceMs]_vars

\* The button pass has switched the controller on and the axis pass of the
\* same iteration has switched it off again.
C37_ToggledTwice ==
    /\ pc = "t_move"
    /\ accepted = 1
    /\ last_toggle = now + DebounceMs
    /\ ~active
    /\ saved_cursor # None

----------------------------------------------------------------------------
(* DCSMouseController.py: the toggle is edge-triggered *)

\* The axis sample v is beyond the threshold of the toggle binding.
Beyond(v) ==
    IF m_cfg.b.dir = "pos" THEN v >= m_cfg.b.thr
    ELSE IF m_cfg.b.dir = "neg" THEN v <= -m_cfg.b.thr
    ELSE Abs(v) >= m_cfg.b.thr

(* C38: the axis polling of "toggle" toggles only when the axis of the      *)
(* binding has gone beyond its threshold since the iteration before: while  *)
(* the axis is held steadily, whatever the modifier does, nothing toggles.  *)
C38_ToggleOnlyOnPress ==
    [][TogAxisStep =>
         /\ accepted' = 1 => (~Beyond(m_val) /\ Beyond(m_val'))
         /\ m_val' = m_val => accepted' = 0]_vars

(* C38, the part that holds on the code: while the modifier stays as it is  *)
(* the axis polling toggles only when the axis has gone beyond the          *)
(* threshold since the iteration before.                                    *)
C38_ToggleOnPressSameLayer ==
    [][(TogAxisStep /\ m_mod' = m_mod /\ accepted' = 1) =>
          (~Beyond(m_val) /\ Beyond(m_val'))]_vars

\* The axis has been held at the same value over the last two iterations,
\* the modifier was down and is up again, and the axis pass has toggled the
\* controller off.
C38_ToggledWithoutPress ==
    /\ pc = "t_move"
    /\ accepted = 1
    /\ ~active /\ saved_cursor # None
    /\ ~m_cfg.b.req_mod /\ ~m_mod
    /\ Beyond(m_val)
    /\ m_res # None /\ m_res[1][2]
    /\ now >= 400

----------------------------------------------------------------------------
(* DCSMouseController.py: the target stays in the clamp space *)

InRect(r, p) ==
    /\ r.x <= p[1] /\ p[1] <= r.x + r.w - 1
    /\ r.y <= p[2] /\ p[2] <= r.y + r.h - 1

\* The clamp space of the configuration: the virtual desktop, the rectangle of
\* the tracked window, or the selected monitor (also when no window is tracked).
ClampSpace(c, window_rect) ==
    IF c.clamp_space = "virtual" THEN VirtualDesktop
    ELSE IF c.clamp_space = "window" /\ window_rect # None THEN window_rect[1]
    ELSE Monitor

\* The movement, or the periodic re-apply, of the iteration has just run.
TogMoveStep  == pc = "t_move" /\ pc' = "t_apply"
TogApplyStep == pc = "t_apply" /\ pc' = "t_sleep"

(* C39: after the movement of an iteration that applied a step the target   *)
(* lies inside the clamp space (the virtual desktop, the rectangle of the   *)
(* tracked window, or else the selected monitor), and the movement and the  *)
(* periodic re-apply set the cursor only while the controller is active.    *)
C39_TargetClampedCursorWhenActive ==
    [][/\ (TogMoveStep /\ stepped' # <<0, 0>>) =>
             InRect(ClampSpace(t_cfg, active_winrect'), target')
       /\ (TogMoveStep \/ TogApplyStep) =>
             ((os_cursor' # os_cursor \/ wiggle_flip' # wiggle_flip
                  \/ last_apply' # last_apply) => active)]_vars

\* A step has been applied while the window, moved by the user, is tracked:
\* the target is in the window's new rectangle and the cursor has been set.
C39_Witness ==
    /\ pc = "t_apply"
    /\ stepped # <<0, 0>>
    /\ active
    /\ active_winrect = Some(MovedWindowRect)
    /\ InRect(MovedWindowRect, target)
    /\ os_cursor = target

\* A step has been applied while the controller is inactive: the target has
\* moved and the cursor is where the user left it.
C39_MovedWhileInactive ==
    /\ pc = "t_apply"
    /\ stepped # <<0, 0>>
    /\ ~active
    /\ target # base
    /\ os_cursor # target

====
